---- MODULE Spec2Model ----
(***************************************************************************)
(* Model of DesktopFileMaker's icon search pipeline (src/core/icon_search.py) *)
(* and of the TUI handlers that drive it (src/tui/app.py).                  *)
(*                                                                         *)
(* Python strings are sequences of one-character strings, so that strip,   *)
(* lower, title, replace, endswith and the `in` substring test are         *)
(* computed as Python computes them.                                       *)
(***************************************************************************)
EXTENDS Integers, Sequences, FiniteSets, TLC

(***************************************************************************)
(* Python str operations                                                   *)
(***************************************************************************)
Lowers == <<"a", "b", "c", "d", "e", "f", "g", "h", "i", "j", "k", "l", "m", "n", "o", "p", "q", "r", "s", "t", "u", "v", "w", "x", "y", "z">>
Uppers == <<"A", "B", "C", "D", "E", "F", "G", "H", "I", "J", "K", "L", "M", "N", "O", "P", "Q", "R", "S", "T", "U", "V", "W", "X", "Y", "Z">>
Digits == {"0", "1", "2", "3", "4", "5", "6", "7", "8", "9"}
Whitespace == {" ", "\t", "\n"}

IsLower(c) == \E i \in 1..Len(Lowers) : Lowers[i] = c
IsUpper(c) == \E i \in 1..Len(Uppers) : Uppers[i] = c
IsCased(c) == IsLower(c) \/ IsUpper(c)
\* str.isalnum() on one character
IsAlnum(c) == IsCased(c) \/ c \in Digits

LowerChar(c) ==
    IF IsUpper(c) THEN Lowers[CHOOSE i \in 1..Len(Uppers) : Uppers[i] = c] ELSE c
UpperChar(c) ==
    IF IsLower(c) THEN Uppers[CHOOSE i \in 1..Len(Lowers) : Lowers[i] = c] ELSE c

\* str.lower()
StrLower(s) == [i \in 1..Len(s) |-> LowerChar(s[i])]

\* str.title(): a cased character is upper-cased when the character before it
\* is not cased, lower-cased otherwise
StrTitle(s) ==
    [i \in 1..Len(s) |->
        IF i > 1 /\ IsCased(s[i - 1]) THEN LowerChar(s[i]) ELSE UpperChar(s[i])]

\* str.strip()
RECURSIVE LStrip(_)
LStrip(s) == IF s # <<>> /\ Head(s) \in Whitespace THEN LStrip(Tail(s)) ELSE s
RECURSIVE RStrip(_)
RStrip(s) ==
    IF s # <<>> /\ s[Len(s)] \in Whitespace THEN RStrip(SubSeq(s, 1, Len(s) - 1)) ELSE s
Strip(s) == RStrip(LStrip(s))

\* str.startswith / str.endswith
StartsWith(s, p) == Len(p) <= Len(s) /\ SubSeq(s, 1, Len(p)) = p
EndsWith(s, p) == Len(p) <= Len(s) /\ SubSeq(s, Len(s) - Len(p) + 1, Len(s)) = p

\* p in s
Contains(s, p) == \E i \in 1..(Len(s) - Len(p) + 1) : SubSeq(s, i, i + Len(p) - 1) = p

\* str.replace(old, new) for a non-empty old: leftmost, non-overlapping
RECURSIVE Replace(_, _, _)
Replace(s, old, new) ==
    IF s = <<>> THEN <<>>
    ELSE IF StartsWith(s, old) THEN new \o Replace(SubSeq(s, Len(old) + 1, Len(s)), old, new)
    ELSE <<Head(s)>> \o Replace(Tail(s), old, new)

\* seq[:n] (Python slice: a negative n counts from the end)
Slice(s, n) ==
    IF n >= 0 THEN SubSeq(s, 1, IF n < Len(s) THEN n ELSE Len(s))
    ELSE SubSeq(s, 1, Len(s) + n)

\* bool(s) of a string
Truthy(s) == s # <<>>

Max(a, b) == IF a >= b THEN a ELSE b
Min(a, b) == IF a <= b THEN a ELSE b

(***************************************************************************)
(* IconResult (icon_search.py:25-220)                                      *)
(***************************************************************************)

\* IconResult.__init__: local_path starts as None
IconResult(title, image_url, thumbnail_url, source, width, height) ==
    [title |-> title, image_url |-> image_url, thumbnail_url |-> thumbnail_url,
     source |-> source, width |-> width, height |-> height]

\* IconResult.is_square: width / height is a float division; for integer
\* dimensions 0.9 <= w/h <= 1.1 is 9h <= 10w <= 11h
\* is_square with both bounds exclusive
is_square_exclusive(r) ==
    IF r.width <= 0 \/ r.height <= 0 THEN TRUE
    ELSE 9 * r.height < 10 * r.width /\ 10 * r.width < 11 * r.height

is_square(r) ==
    IF r.width <= 0 \/ r.height <= 0 THEN TRUE
    ELSE 9 * r.height <= 10 * r.width /\ 10 * r.width <= 11 * r.height

\* source-based part of calculate_current_score
SourceScore(source, title_lower) ==
    IF source = "github"
    THEN 600 + (IF Contains(title_lower, <<"o", "f", "f", "i", "c", "i", "a", "l", " ", "r", "e", "p", "o">>) \/ Contains(title_lower, <<"p", "r", "i", "m", "a", "r", "y">>)
                THEN 150 ELSE 0)
    ELSE IF source = "simpleicons" THEN 550
    ELSE IF source = "iconify" THEN 500
    ELSE 0

\* positive signals of calculate_current_score
PositiveScore(title_lower, width, height) ==
      (IF Contains(title_lower, <<"o", "f", "f", "i", "c", "i", "a", "l">>) THEN 100 ELSE 0)
    + (IF Contains(title_lower, <<"p", "r", "i", "m", "a", "r", "y">>) THEN 80 ELSE 0)
    + (IF \E year \in {<<"2", "0", "2", "4">>, <<"2", "0", "2", "5">>, <<"2", "0", "2", "6">>} : Contains(title_lower, year)
       THEN 100 ELSE 0)
    + (IF Contains(title_lower, <<"c", "u", "r", "r", "e", "n", "t">>) THEN 50 ELSE 0)
    + (IF Contains(title_lower, <<"b", "r", "a", "n", "d">>) THEN 50 ELSE 0)
    + (IF width >= 1024 /\ height >= 1024 THEN 30
       ELSE IF width >= 512 /\ height >= 512 THEN 20 ELSE 0)

\* the low-resolution penalty with its threshold at 512 instead of 256
LowResPenaltyBelow512(width) == IF width > 0 /\ width < 512 THEN 20 ELSE 0

\* low-resolution penalty of calculate_current_score
LowResPenalty(width) == IF width > 0 /\ width < 256 THEN 20 ELSE 0

\* the negative signals with "history" and "historical" counted separately
NegativeScoreHistoryTwice(title_lower, width) ==
      (IF Contains(title_lower, <<"o", "l", "d">>) THEN 100 ELSE 0)
    + (IF Contains(title_lower, <<"l", "e", "g", "a", "c", "y">>) THEN 100 ELSE 0)
    + (IF Contains(title_lower, <<"v", "i", "n", "t", "a", "g", "e">>) THEN 50 ELSE 0)
    + (IF Contains(title_lower, <<"h", "i", "s", "t", "o", "r", "y">>) THEN 50 ELSE 0)
    + (IF Contains(title_lower, <<"h", "i", "s", "t", "o", "r", "i", "c", "a", "l">>) THEN 50 ELSE 0)
    + (IF Contains(title_lower, <<"r", "e", "t", "r", "o">>) THEN 50 ELSE 0)
    + LowResPenalty(width)

\* negative signals of calculate_current_score
NegativeScore(title_lower, width) ==
      (IF Contains(title_lower, <<"o", "l", "d">>) THEN 100 ELSE 0)
    + (IF Contains(title_lower, <<"l", "e", "g", "a", "c", "y">>) THEN 100 ELSE 0)
    + (IF Contains(title_lower, <<"v", "i", "n", "t", "a", "g", "e">>) THEN 50 ELSE 0)
    + (IF Contains(title_lower, <<"h", "i", "s", "t", "o", "r", "y">>) \/ Contains(title_lower, <<"h", "i", "s", "t", "o", "r", "i", "c", "a", "l">>)
       THEN 50 ELSE 0)
    + (IF Contains(title_lower, <<"r", "e", "t", "r", "o">>) THEN 50 ELSE 0)
    + LowResPenalty(width)

calculate_current_score(r) ==
    LET title_lower == StrLower(r.title)
    IN  SourceScore(r.source, title_lower)
        + PositiveScore(title_lower, r.width, r.height)
        - NegativeScore(title_lower, r.width)

(***************************************************************************)
(* extract_search_term (icon_search.py:451-475)                            *)
(***************************************************************************)
None == <<"None">>

\* Path(p).name: the last path component, "" and "." components dropped
RECURSIVE PathParts(_, _, _)
PathParts(p, cur, acc) ==
    IF p = <<>> THEN (IF cur = <<>> \/ cur = <<".">> THEN acc ELSE Append(acc, cur))
    ELSE IF Head(p) = "/"
         THEN PathParts(Tail(p), <<>>,
                        IF cur = <<>> \/ cur = <<".">> THEN acc ELSE Append(acc, cur))
         ELSE PathParts(Tail(p), Append(cur, Head(p)), acc)
PathName(p) ==
    LET parts == PathParts(p, <<>>, <<>>)
    IN  IF parts = <<>> THEN <<>> ELSE parts[Len(parts)]

KnownExtensions == << <<".", "s", "h">>, <<".", "p", "y">>, <<".", "b", "i", "n">>, <<".", "e", "x", "e">>, <<".", "A", "p", "p", "I", "m", "a", "g", "e">> >>

\* for ext in [...]: if exec_file.endswith(ext): exec_file = exec_file[:-len(ext)]
RECURSIVE StripExtensions(_, _)
StripExtensions(exec_file, exts) ==
    IF exts = <<>> THEN exec_file
    ELSE StripExtensions(
            IF EndsWith(exec_file, Head(exts))
            THEN SubSeq(exec_file, 1, Len(exec_file) - Len(Head(exts)))
            ELSE exec_file,
            Tail(exts))

extract_search_term(nm, ep) ==
    IF Truthy(nm) /\ Truthy(Strip(nm)) THEN Strip(nm)
    ELSE IF Truthy(ep) /\ Truthy(Strip(ep)) THEN StripExtensions(PathName(ep), KnownExtensions)
    ELSE <<>>

\* search_term = query or extract_search_term(name, exec_path)
ResolveSearchTerm(q, nm, ep) == IF Truthy(q) THEN q ELSE extract_search_term(nm, ep)

(***************************************************************************)
(* Source clients: pure parts                                              *)
(***************************************************************************)
\* search_simple_icons: slug and its variations (None where the list holds None)
SimpleIconsSlug(app_name) ==
    Replace(Replace(StrLower(Strip(app_name)), <<" ">>, <<>>), <<"-">>, <<>>)
SimpleIconsVariations(app_name) ==
    LET search_slug == SimpleIconsSlug(app_name)
    IN  << search_slug,
           IF Contains(search_slug, <<"v", "s">>)
           THEN Replace(search_slug, <<"v", "s">>, <<"v", "i", "s", "u", "a", "l", "s", "t", "u", "d", "i", "o">>) ELSE None,
           IF Contains(search_slug, <<"c", "o", "d", "e">>)
           THEN Replace(search_slug, <<"c", "o", "d", "e">>, <<>>) ELSE None >>

SimpleIconsUrl(slug) == <<"h", "t", "t", "p", "s", ":", "/", "/", "c", "d", "n", ".", "s", "i", "m", "p", "l", "e", "i", "c", "o", "n", "s", ".", "o", "r", "g", "/">> \o slug
SimpleIconsResult(slug) ==
    IconResult(StrTitle(slug) \o <<" ", "(", "S", "i", "m", "p", "l", "e", "I", "c", "o", "n", "s", ")">>, SimpleIconsUrl(slug),
               SimpleIconsUrl(slug), "simpleicons", 512, 512)

\* search_iconify: the namespaces, the normalized term, one candidate
IconSets == << <<"l", "o", "g", "o", "s">>, <<"s", "i", "m", "p", "l", "e", "-", "i", "c", "o", "n", "s">>, <<"m", "d", "i">>, <<"f", "a">> >>
IconifyTerm(app_name) == Replace(StrLower(Strip(app_name)), <<" ">>, <<"-">>)
IconifyUrl(icon_name) == <<"h", "t", "t", "p", "s", ":", "/", "/", "a", "p", "i", ".", "i", "c", "o", "n", "i", "f", "y", ".", "d", "e", "s", "i", "g", "n", "/">> \o icon_name \o <<".", "s", "v", "g">>
IconifyTitle(icon_name) ==
    StrTitle(Replace(Replace(icon_name, <<"-">>, <<" ">>), <<":">>, <<":", " ">>)) \o <<" ", "(", "O", "f", "f", "i", "c", "i", "a", "l", ")">>
\* a catalog candidate tagged as a GitHub result
IconifyResultGithub(icon_name) ==
    IconResult(IconifyTitle(icon_name), IconifyUrl(icon_name), IconifyUrl(icon_name),
               "github", 512, 512)
IconifyResult(icon_name) ==
    IconResult(IconifyTitle(icon_name), IconifyUrl(icon_name), IconifyUrl(icon_name),
               "iconify", 512, 512)

\* for icon_name in icons[:limit]: append; if len(results) >= limit: break
RECURSIVE IconifyAppend(_, _, _)
IconifyAppend(results, icons, lim) ==
    IF icons = <<>> THEN results
    ELSE LET r2 == Append(results, IconifyResult(Head(icons)))
         IN  IF Len(r2) >= lim THEN r2 ELSE IconifyAppend(r2, Tail(icons), lim)

\* one hit handled without the `if image_url in seen_urls: continue` test
DdgOneHitNoSeen(st, hit) ==
    [seen |-> st.seen \cup {hit.image},
     results |-> IF Truthy(hit.image)
                 THEN Append(st.results,
                             IconResult(hit.title, hit.image, hit.thumbnail,
                                        "duckduckgo", hit.width, hit.height))
                 ELSE st.results]

\* search_images_duckduckgo: one hit of a sub-query (result.get with defaults)
\* st = [results, seen]
DdgOneHit(st, hit) ==
    IF hit.image \in st.seen THEN st
    ELSE [seen |-> st.seen \cup {hit.image},
          results |-> IF Truthy(hit.image)
                      THEN Append(st.results,
                                  IconResult(hit.title, hit.image, hit.thumbnail,
                                             "duckduckgo", hit.width, hit.height))
                      ELSE st.results]
RECURSIVE DdgHits(_, _)
DdgHits(st, hits) == IF hits = <<>> THEN st ELSE DdgHits(DdgOneHit(st, Head(hits)), Tail(hits))

\* a sort that is not stable: a candidate goes in front of those it ties with
RECURSIVE InsertBeforeTies(_, _)
InsertBeforeTies(sorted, r) ==
    IF sorted = <<>> THEN <<r>>
    ELSE IF calculate_current_score(Head(sorted)) > calculate_current_score(r)
         THEN <<Head(sorted)>> \o InsertBeforeTies(Tail(sorted), r)
         ELSE <<r>> \o sorted

\* list.sort(key=calculate_current_score, reverse=True): stable, equal keys
\* keep their order
RECURSIVE InsertByScore(_, _)
InsertByScore(sorted, r) ==
    IF sorted = <<>> THEN <<r>>
    ELSE IF calculate_current_score(Head(sorted)) >= calculate_current_score(r)
         THEN <<Head(sorted)>> \o InsertByScore(Tail(sorted), r)
         ELSE <<r>> \o sorted
RECURSIVE SortByScore(_)
SortByScore(rs) ==
    IF rs = <<>> THEN <<>>
    ELSE InsertByScore(SortByScore(SubSeq(rs, 1, Len(rs) - 1)), rs[Len(rs)])

\* the merge without the `not in seen_urls` test: every result is appended
MergeAll(st, rs) ==
    [results |-> st.results \o rs,
     seen |-> st.seen \cup { rs[i].image_url : i \in DOMAIN rs }]

\* for result in source_results: if result.image_url not in seen_urls: append, add
\* st = [results, seen]
RECURSIVE MergeNew(_, _)
MergeNew(st, rs) ==
    IF rs = <<>> THEN st
    ELSE MergeNew(
            IF Head(rs).image_url \notin st.seen
            THEN [results |-> Append(st.results, Head(rs)),
                  seen |-> st.seen \cup {Head(rs).image_url}]
            ELSE st,
            Tail(rs))

(***************************************************************************)
(* Bounds and the environment (inputs, what the network answers)           *)
(***************************************************************************)
\* largest result limit a direct caller asks for
MaxLimit == 5
\* most icon names one catalog response carries
MaxIcons == 2
\* most hits one web-search response carries
MaxHits == 2
\* most words in a title handed to the scorer
MaxWords == 2
\* most chunks a download response carries
MaxChunks == 2
\* most download_image calls on one candidate
MaxDownloads == 3

\* search_icons(query, name, exec_path, ...) as a direct caller invokes it
Request(q, nm, ep) == [query |-> q, name |-> nm, exec_path |-> ep, include_github |-> FALSE]
Requests ==
    { Request(<<>>, <<>>, <<>>),
      Request(<<>>, <<>>, <<".", "s", "h">>),
      Request(<<" ", " ">>, <<"F", "i", "r", "e", "f", "o", "x">>, <<>>),
      [Request(<<"G", "o", "l", "d">>, <<"F", "i", "r", "e", "f", "o", "x">>, <<>>) EXCEPT !.include_github = TRUE],
      Request(<<>>, <<"F", "i", "r", "e", "f", "o", "x">>, <<>>),
      Request(<<>>, <<" ", " ">>, <<"/", "o", "p", "t", "/", "g", "o", "l", "d", ".", "s", "h">>) }
Limits == { -1, 0, 1, MaxLimit }

\* what the form holds when the user presses the search key
FormNames == { <<>>, <<"F", "i", "r", "e", "f", "o", "x">> }
FormExecs == { <<>> }

\* HEAD https://cdn.simpleicons.org/{slug}
CdnResponses == { "200", "404", "exc" }

\* the icon names the catalog holds for namespace i and a term (the brand sets
\* hold several, the UI sets one); a response carries the first k of them
CatalogIcons(i, term) ==
    CASE i = 1 -> << IconSets[1] \o <<":">> \o term,
                     IconSets[1] \o <<":">> \o term \o <<"-", "i", "c", "o", "n">>,
                     IconSets[1] \o <<":">> \o term \o <<"-", "o", "l", "d">> >>
      [] i = 2 -> << IconSets[2] \o <<":">> \o term,
                     IconSets[1] \o <<":">> \o term,
                     IconSets[2] \o <<":">> \o term \o <<"-", "i", "c", "o", "n">> >>
      [] OTHER -> << IconSets[i] \o <<":">> \o term >>
\* kind "malformed": a 200 whose "icons" holds a non-string after the entries
\* listed in icons; `icon_name.replace` raises there (line 270)
CatalogResponses(i, term) ==
    { [kind |-> "exc"], [kind |-> "status"],
      [kind |-> "malformed", icons |-> SubSeq(CatalogIcons(i, term), 1, 1)] }
    \cup { [kind |-> "ok", icons |-> SubSeq(CatalogIcons(i, term), 1, k)] :
             k \in 0..Min(MaxIcons, Len(CatalogIcons(i, term))) }

\* the hits the web search can answer for sub-query i; a response carries the
\* first MaxHits of them, or none
Hit(title, image, width, height) ==
    [title |-> title, image |-> image, thumbnail |-> image, width |-> width, height |-> height]
HitOfficial == Hit(<<"O", "f", "f", "i", "c", "i", "a", "l", " ", "L", "o", "g", "o">>, <<"h", "t", "t", "p", "s", ":", "/", "/", "e", ".", "o", "r", "g", "/", "l", "o", "g", "o", ".", "p", "n", "g">>, 1024, 1024)
HitBanner == Hit(<<"B", "a", "n", "n", "e", "r">>, <<"h", "t", "t", "p", "s", ":", "/", "/", "e", ".", "o", "r", "g", "/", "b", "a", "n", "n", "e", "r", ".", "j", "p", "g">>, 1000, 500)
HitPlain == Hit(<<"I", "c", "o", "n">>, <<"h", "t", "t", "p", "s", ":", "/", "/", "e", ".", "o", "r", "g", "/", "i", "c", "o", "n", ".", "p", "n", "g">>, 0, 0)
HitOld == Hit(<<"O", "l", "d", " ", "i", "c", "o", "n">>, <<"h", "t", "t", "p", "s", ":", "/", "/", "e", ".", "o", "r", "g", "/", "o", "l", "d", ".", "g", "i", "f">>, 128, 128)
\* a hit without an "image" key: result.get("image", "") gives ""
HitNoUrl == Hit(<<"N", "o", " ", "U", "R", "L">>, <<>>, 512, 512)
HitCatalog(term) == Hit(<<"L", "o", "g", "o">>, IconifyUrl(IconSets[1] \o <<":">> \o IconifyTerm(term)), 512, 512)
WebHits(i, term) ==
    CASE i = 1 -> << HitOfficial, HitBanner, HitPlain >>
      [] i = 2 -> << HitPlain, HitOfficial, HitOld >>
      [] i = 3 -> << HitCatalog(term), HitOld, HitOfficial >>
      [] OTHER -> << HitNoUrl, HitOld, HitPlain >>
\* kind "malformed": a hit list that holds a non-dict after the hits listed
\* in hits; `result.get` raises there (line 409)
WebResponses(i, term) ==
    { [kind |-> "exc"],
      [kind |-> "malformed", hits |-> SubSeq(WebHits(i, term), 1, 1)],
      [kind |-> "ok", hits |-> <<>>],
      [kind |-> "ok", hits |-> SubSeq(WebHits(i, term), 1, Min(MaxHits, 3))] }

\* the three sources; an unreachable one fails every request made to it
Sources == { "simpleicons", "iconify", "duckduckgo" }

\* the ddgs module at import and DDGS() at construction
ProviderStates == { "absent", "ctor_raises", "ok" }

(***************************************************************************)
(* State                                                                   *)
(***************************************************************************)
VARIABLES
    caller,              \* "none" | "direct" (search_icons called) | "app" (action_search_icons)
    unreachable,         \* the sources that are down during this search
    query, name, exec_path, limit,      \* arguments of search_icons
    include_github,                     \* argument of search_icons, never read
    pc,                  \* position in search_icons / the running client
    search_term, all_results, seen_urls,
    simpleicons_results, iconify_results, ddg_results,
    c_term, c_limit,     \* arguments of the running client
    c_results, c_seen, idx,             \* its results / seen_urls / loop position
    calls,               \* client calls made, in order
    contacted,           \* network requests issued
    answers,             \* the answers a client called on its own got, in order
    alarm, lateRequest,  \* SIGALRM: "off" | "armed" | "fired"; a request was issued after it fired
    outcome,             \* what action_search_icons showed
    returned, raised,    \* search_icons' return value / the exception that left it
    s_cand, s_score,     \* a candidate handed to calculate_current_score, and its score
    s_square,            \* what is_square answered for s_cand
    d_icon,              \* the candidate download_image is called on
    d_fs,                \* the files on disk: path -> chunks written
    d_dir, d_net,        \* the last call's target_dir and what network and disk did
    d_ret, d_raised,     \* the last call's return value / whether it raised
    d_calls,             \* download_image calls made
    d_repeat,            \* the last call repeated the one before: both succeeded, same target_dir, same content
    e_name, e_exec,      \* the arguments of an extract_search_term call
    e_term,              \* and what it returned
    f_data,              \* a DesktopFileData handed to generate_desktop_content
    f_text,              \* the text generated for it
    f_parsed,            \* what parse_desktop_content made of that text
    g_fs,                \* the files present on disk
    g_readable,          \* whether /opt can be listed by this user
    g_executables,       \* ExecutableSuggester._executables: <<>> for None, << list >> once set
    g_scans,             \* _scan_executables calls made
    g_value, g_result,   \* the last get_suggestion call: its argument and return value
    g_raised,            \* whether it raised
    g_first,             \* name-based query -> what its first call returned
    g_calls,             \* get_suggestion calls made
    a_name, a_exec, a_icon, a_categories,   \* the form's Name, Exec, Icon and Categories fields
    a_pending,           \* DesktopFileMakerApp._pending_icon: <<>> for None, << icon >> once selected
    a_downloaded,        \* the files in the user's icon directory
    a_file,              \* <<>>, or << content >> of the desktop file last written
    a_outcome,           \* how the last action_save ended: "none" | "rejected" | "failed" | "saved"
    a_saves              \* action_save calls made

inputVars == << caller, unreachable, query, name, exec_path, limit, include_github >>
orchVars == << search_term, all_results, seen_urls,
               simpleicons_results, iconify_results, ddg_results >>
clientVars == << c_term, c_limit, c_results, c_seen, idx >>
envVars == << calls, contacted, answers >>
appVars == << alarm, lateRequest, outcome >>
retVars == << returned, raised >>
scoreVars == << s_cand, s_score, s_square >>
downloadVars == << d_icon, d_fs, d_dir, d_net, d_ret, d_raised, d_calls, d_repeat >>
\* the state of the operations that are not running
termVars == << e_name, e_exec, e_term >>
desktopVars == << f_data, f_text, f_parsed >>
suggestVars == << g_fs, g_readable, g_executables, g_scans, g_value, g_result, g_raised, g_first,
                  g_calls >>

formVars == << a_name, a_exec, a_icon, a_categories, a_pending, a_downloaded, a_file, a_outcome,
               a_saves >>

restVars == << scoreVars, downloadVars, termVars, desktopVars, suggestVars, formVars >>
heldVars == << inputVars, restVars >>
searchVars == << inputVars, pc, orchVars, clientVars, envVars, appVars, retVars >>

SearchInit ==
    /\ caller = "none" /\ unreachable = {} /\ query = <<>> /\ name = <<>> /\ exec_path = <<>> /\ limit = 0
    /\ include_github = FALSE
    /\ pc = "idle"
    /\ search_term = <<>> /\ all_results = <<>> /\ seen_urls = {}
    /\ simpleicons_results = <<>> /\ iconify_results = <<>> /\ ddg_results = <<>>
    /\ c_term = <<>> /\ c_limit = 0 /\ c_results = <<>> /\ c_seen = {} /\ idx = 0
    /\ calls = <<>> /\ contacted = 0 /\ answers = <<>>
    /\ alarm = "off" /\ lateRequest = FALSE /\ outcome = "none"
    /\ returned = <<>> /\ raised = "none"

(***************************************************************************)
(* Exceptions                                                              *)
(***************************************************************************)
\* An exception leaves search_icons.  A direct caller sees it raised; in
\* action_search_icons the finally clause cancels the alarm and the except
\* clauses report it (app.py:366-401).
Propagate(exc, alarmNow) ==
    /\ pc' = "done"
    /\ alarm' = IF caller = "app" /\ alarmNow = "armed" THEN "off" ELSE alarmNow
    /\ returned' = <<>>
    /\ UNCHANGED lateRequest
    /\ IF caller = "app"
       THEN /\ raised' = "none"
            /\ outcome' = IF exc = "TimeoutError" THEN "timed_out" ELSE "search_failed"
       ELSE /\ raised' = exc
            /\ outcome' = outcome

(***************************************************************************)
(* Entry points                                                            *)
(***************************************************************************)
\* a caller invokes search_icons(query, name, exec_path, limit)
CallSearchIcons ==
    /\ pc = "idle"
    /\ \E req \in Requests, lim \in Limits, down \in SUBSET Sources :
          /\ query' = req.query /\ name' = req.name /\ exec_path' = req.exec_path
          /\ include_github' = req.include_github
          /\ limit' = lim /\ unreachable' = down
    /\ caller' = "direct"
    /\ pc' = "si_entry"
    /\ UNCHANGED << orchVars, clientVars, envVars, appVars, retVars, restVars >>

\* the arguments a client is called with when it is called on its own
ClientTerms == { <<>>, <<" ">>, <<"G", "o", "l", "d">>, <<"V", "S", " ", "C", "o", "d", "e">>, <<"C", "o", "d", "e", "x">> }
ClientLimits == { 1, 2, MaxLimit }

\* search_simple_icons(app_name, limit), search_iconify(app_name, limit) or
\* search_images_duckduckgo(query, limit) called directly; the client's return
\* value lands in simpleicons_results, iconify_results or ddg_results
CallClient ==
    /\ pc = "idle"
    /\ \E client \in { "simpleicons", "iconify", "duckduckgo" }, term \in ClientTerms, lim \in ClientLimits,
          down \in BOOLEAN :
          /\ unreachable' = IF down THEN { client } ELSE {}
          /\ c_term' = term /\ c_limit' = lim
          /\ calls' = << [client |-> client, term |-> term, limit |-> lim] >>
          /\ pc' = CASE client = "simpleicons" -> "simple_entry"
                      [] client = "iconify" -> "iconify_entry"
                      [] OTHER -> "ddg_entry"
    /\ caller' = "client"
    /\ UNCHANGED << query, name, exec_path, limit, include_github, orchVars, c_results, c_seen, idx, contacted,
                    answers, appVars, retVars, restVars >>

\* action_search_icons up to the call of search_icons (app.py:338-367)
ActionSearchIcons ==
    /\ pc = "idle"
    /\ \E nm \in FormNames, ep \in FormExecs, down \in SUBSET Sources :
          /\ name' = nm /\ exec_path' = ep /\ unreachable' = down
          /\ IF Strip(nm) = <<>> /\ Strip(ep) = <<>>
             THEN /\ outcome' = "nothing_to_search"
                  /\ pc' = "done"
                  /\ UNCHANGED << alarm, limit >>
             ELSE /\ alarm' = "armed"
                  /\ limit' = 40
                  /\ pc' = "si_entry"
                  /\ UNCHANGED outcome
    /\ caller' = "app"
    /\ UNCHANGED << query, include_github, orchVars, clientVars, envVars, lateRequest, retVars,
                    restVars >>

(***************************************************************************)
(* search_icons (icon_search.py:478-543)                                   *)
(***************************************************************************)
\* search_icons without the `if not search_term: return []` guard
SearchIconsResolveUnguarded ==
    /\ pc = "si_entry"
    /\ search_term' = ResolveSearchTerm(query, name, exec_path)
    /\ pc' = "phase1"
    /\ all_results' = <<>> /\ seen_urls' = {}
    /\ UNCHANGED << heldVars, simpleicons_results, iconify_results, ddg_results,
                    clientVars, envVars, appVars, retVars >>

\* lines 504-511
SearchIconsResolve ==
    /\ pc = "si_entry"
    /\ search_term' = ResolveSearchTerm(query, name, exec_path)
    /\ IF ~Truthy(search_term')
       THEN /\ returned' = <<>>
            /\ pc' = "ret"
       ELSE /\ pc' = "phase1"
            /\ UNCHANGED returned
    /\ all_results' = <<>> /\ seen_urls' = {}
    /\ UNCHANGED << heldVars, simpleicons_results, iconify_results, ddg_results,
                    clientVars, envVars, appVars, raised >>

\* the limits search_icons hands to the curated-brand and the catalog client
SimpleIconsLimit == 5
IconifyLimit == 8

\* line 514: simpleicons_results = search_simple_icons(search_term, limit=5)
Phase1Call ==
    /\ pc = "phase1"
    /\ calls' = Append(calls, [client |-> "simpleicons", term |-> search_term,
                               limit |-> SimpleIconsLimit])
    /\ c_term' = search_term /\ c_limit' = SimpleIconsLimit
    /\ pc' = "simple_entry"
    /\ UNCHANGED << heldVars, orchVars, c_results, c_seen, idx, contacted, answers, appVars,
                    retVars >>

\* lines 515-518
Phase1Merge ==
    /\ pc = "phase1_merge"
    /\ LET m == MergeNew([results |-> all_results, seen |-> seen_urls], simpleicons_results)
       IN  all_results' = m.results /\ seen_urls' = m.seen
    /\ pc' = "phase2"
    /\ UNCHANGED << heldVars, search_term, simpleicons_results, iconify_results, ddg_results,
                    clientVars, calls, contacted, appVars, retVars >>
    /\ answers' = <<>>

\* line 521: iconify_results = search_iconify(search_term, limit=8)
Phase2Call ==
    /\ pc = "phase2"
    /\ calls' = Append(calls, [client |-> "iconify", term |-> search_term,
                               limit |-> IconifyLimit])
    /\ c_term' = search_term /\ c_limit' = IconifyLimit
    /\ pc' = "iconify_entry"
    /\ UNCHANGED << heldVars, orchVars, c_results, c_seen, idx, contacted, answers, appVars,
                    retVars >>

\* lines 522-525
Phase2Merge ==
    /\ pc = "phase2_merge"
    /\ LET m == MergeNew([results |-> all_results, seen |-> seen_urls], iconify_results)
       IN  all_results' = m.results /\ seen_urls' = m.seen
    /\ pc' = "phase3"
    /\ UNCHANGED << heldVars, search_term, simpleicons_results, iconify_results, ddg_results,
                    clientVars, calls, contacted, appVars, retVars >>
    /\ answers' = <<>>

\* search_icons asking the web search whatever is already collected
Phase3CallAlways ==
    /\ pc = "phase3"
    /\ LET remaining == limit - Len(all_results)
           ddg_limit == Max(remaining * 2, 10)
       IN  /\ calls' = Append(calls, [client |-> "duckduckgo", term |-> search_term,
                                      limit |-> ddg_limit])
           /\ c_term' = search_term /\ c_limit' = ddg_limit
           /\ pc' = "ddg_entry"
    /\ UNCHANGED << heldVars, orchVars, c_results, c_seen, idx, contacted, answers, appVars,
                    retVars >>

\* lines 529-532: the web search is asked only when results are missing
Phase3Call ==
    /\ pc = "phase3"
    /\ LET remaining == limit - Len(all_results)
           ddg_limit == Max(remaining * 2, 10)
       IN  IF remaining > 0
           THEN /\ calls' = Append(calls, [client |-> "duckduckgo", term |-> search_term,
                                           limit |-> ddg_limit])
                /\ c_term' = search_term /\ c_limit' = ddg_limit
                /\ pc' = "ddg_entry"
           ELSE /\ pc' = "sort"
                /\ UNCHANGED << calls, c_term, c_limit >>
    /\ UNCHANGED << heldVars, orchVars, c_results, c_seen, idx, contacted, answers, appVars,
                    retVars >>

\* lines 534-537
Phase3Merge ==
    /\ pc = "phase3_merge"
    /\ LET m == MergeNew([results |-> all_results, seen |-> seen_urls], ddg_results)
       IN  all_results' = m.results /\ seen_urls' = m.seen
    /\ pc' = "sort"
    /\ UNCHANGED << heldVars, search_term, simpleicons_results, iconify_results, ddg_results,
                    clientVars, calls, contacted, appVars, retVars >>
    /\ answers' = <<>>

\* lines 540-543: sort in place, return the first limit
SortAndReturn ==
    /\ pc = "sort"
    /\ all_results' = SortByScore(all_results)
    /\ returned' = Slice(all_results', limit)
    /\ pc' = "ret"
    /\ UNCHANGED << heldVars, search_term, seen_urls, simpleicons_results, iconify_results,
                    ddg_results, clientVars, envVars, appVars, raised >>

\* search_icons has returned; action_search_icons goes on (app.py:368-396)
Return ==
    /\ pc = "ret"
    /\ pc' = "done"
    /\ IF caller = "app"
       THEN /\ alarm' = IF alarm = "armed" THEN "off" ELSE alarm
            /\ outcome' = IF returned = <<>> THEN "no_results" ELSE "modal"
       ELSE UNCHANGED << alarm, outcome >>
    /\ UNCHANGED << heldVars, orchVars, clientVars, envVars, lateRequest, retVars >>

(***************************************************************************)
(* The source clients, one step per request                                *)
(***************************************************************************)
\* an answer as `answers` keeps it: the response and what was asked (the
\* catalog namespace, or the position of the web sub-query)
Answered(req, resp) ==
    [f \in DOMAIN resp \cup { "req" } |-> IF f = "req" THEN req ELSE resp[f]]

\* a client returns: its frame (arguments and locals) is gone
FrameDropped ==
    /\ c_term' = <<>> /\ c_limit' = 0 /\ c_results' = <<>> /\ c_seen' = {} /\ idx' = 0

\* what the network answers while this search runs
CdnAnswers == IF "simpleicons" \in unreachable THEN { "exc" } ELSE CdnResponses
CatalogAnswers(i, term) ==
    IF "iconify" \in unreachable THEN { [kind |-> "exc"] } ELSE CatalogResponses(i, term)
WebAnswers(i, term) ==
    IF "duckduckgo" \in unreachable THEN { [kind |-> "exc"] } ELSE WebResponses(i, term)

\* a network request goes out
RequestSent ==
    /\ contacted' = contacted + 1
    /\ lateRequest' = (lateRequest \/ alarm = "fired")
    /\ UNCHANGED << calls, answers, alarm, outcome >>

(***************************************************************************)
(* search_simple_icons (icon_search.py:298-358)                            *)
(***************************************************************************)
SimpleIconsReturn(rs) ==
    /\ simpleicons_results' = rs
    /\ pc' = "phase1_merge"
    /\ FrameDropped
    /\ UNCHANGED << search_term, all_results, seen_urls, iconify_results, ddg_results >>

\* lines 311-320
SimpleIconsEntry ==
    /\ pc = "simple_entry"
    /\ IF ~Truthy(c_term) \/ ~Truthy(Strip(c_term))
       THEN SimpleIconsReturn(<<>>)
       ELSE /\ c_results' = <<>> /\ idx' = 1
            /\ pc' = "simple_loop"
            /\ UNCHANGED << orchVars, c_term, c_limit, c_seen >>
    /\ UNCHANGED << heldVars, envVars, appVars, retVars >>

\* lines 329-339 and 355: the loop head, up to sending the HEAD request
SimpleIconsLoop ==
    /\ pc = "simple_loop"
    /\ LET variations == SimpleIconsVariations(c_term)
       IN  IF idx > Len(variations)
              \/ ~(variations[idx] # None /\ Truthy(variations[idx]))
              \/ Len(c_results) >= c_limit
           THEN SimpleIconsReturn(c_results) /\ UNCHANGED << envVars, appVars >>
           ELSE /\ pc' = "simple_head"
                /\ RequestSent
                /\ UNCHANGED << orchVars, clientVars >>
    /\ UNCHANGED << heldVars, retVars >>

\* the HEAD request without its own try: the outer `except Exception:
\* return []` ends the whole call at the first failing variant
SimpleIconsRequestAborts ==
    /\ SimpleIconsReturn(<<>>)
    /\ UNCHANGED << heldVars, calls, contacted, appVars, retVars >>

\* lines 352-353: except Exception: continue
SimpleIconsRequestFailed ==
    /\ idx' = idx + 1
    /\ pc' = "simple_loop"
    /\ UNCHANGED << heldVars, orchVars, c_term, c_limit, c_results, c_seen, calls, contacted,
                    appVars, retVars >>

\* what the answer to the HEAD request adds to results (lines 341-351)
SimpleIconsResponse(results, resp, slug) ==
    IF resp = "200" THEN Append(results, SimpleIconsResult(slug)) ELSE results

\* lines 339-351: the answer to the HEAD request
SimpleIconsHead ==
    /\ pc = "simple_head"
    /\ \E resp \in CdnAnswers :
          /\ answers' = IF caller = "client"
                        THEN Append(answers, [req |-> SimpleIconsVariations(c_term)[idx],
                                              kind |-> resp])
                        ELSE answers
          /\ IF resp = "exc" THEN SimpleIconsRequestFailed
             ELSE /\ c_results' = SimpleIconsResponse(c_results, resp,
                                                      SimpleIconsVariations(c_term)[idx])
                  /\ idx' = idx + 1
                  /\ pc' = "simple_loop"
                  /\ UNCHANGED << heldVars, orchVars, c_term, c_limit, c_seen, calls,
                                  contacted, appVars, retVars >>

(***************************************************************************)
(* search_iconify (icon_search.py:223-295)                                 *)
(***************************************************************************)
IconifyReturn(rs) ==
    /\ iconify_results' = rs
    /\ pc' = "phase2_merge"
    /\ FrameDropped
    /\ UNCHANGED << search_term, all_results, seen_urls, simpleicons_results, ddg_results >>

\* lines 236-252
IconifyEntry ==
    /\ pc = "iconify_entry"
    /\ IF ~Truthy(c_term) \/ ~Truthy(Strip(c_term))
       THEN IconifyReturn(<<>>)
       ELSE /\ c_results' = <<>> /\ idx' = 1
            /\ pc' = "iconify_loop"
            /\ UNCHANGED << orchVars, c_term, c_limit, c_seen >>
    /\ UNCHANGED << heldVars, envVars, appVars, retVars >>

\* lines 254-258 and 291: the loop head, up to sending the GET request
IconifyLoop ==
    /\ pc = "iconify_loop"
    /\ IF idx > Len(IconSets)
       THEN IconifyReturn(c_results) /\ UNCHANGED << envVars, appVars >>
       ELSE /\ pc' = "iconify_get"
            /\ RequestSent
            /\ UNCHANGED << orchVars, clientVars >>
    /\ UNCHANGED << heldVars, retVars >>

\* what a response adds to results (lines 260-282); the entries before a
\* malformed one are appended before it raises, and `except Exception:
\* continue` (284-286) leaves them in results
IconifyResponse(results, resp, lim) ==
    IF resp.kind \in { "ok", "malformed" } THEN IconifyAppend(results, Slice(resp.icons, lim), lim) ELSE results

\* the namespace request with `break` in place of `continue`: the first
\* failing namespace ends the catalog search
IconifyRequestBreaks ==
    /\ IconifyReturn(c_results)
    /\ UNCHANGED << heldVars, calls, contacted, appVars, retVars >>

\* lines 284-286: except Exception: continue
IconifyRequestFailed ==
    /\ idx' = idx + 1
    /\ pc' = "iconify_loop"
    /\ UNCHANGED << heldVars, orchVars, c_term, c_limit, c_results, c_seen, calls, contacted,
                    appVars, retVars >>

\* lines 258-289: the answer to the GET request, then the limit check
IconifyGet ==
    /\ pc = "iconify_get"
    /\ \E resp \in CatalogAnswers(idx, IconifyTerm(c_term)) :
          /\ answers' = IF caller = "client"
                        THEN Append(answers, Answered(IconSets[idx], resp))
                        ELSE answers
          /\ IF resp.kind = "exc" THEN IconifyRequestFailed
             ELSE LET results == IconifyResponse(c_results, resp, c_limit)
                  IN  /\ IF Len(results) >= c_limit
                         THEN IconifyReturn(results)
                         ELSE /\ c_results' = results
                              /\ idx' = idx + 1
                              /\ pc' = "iconify_loop"
                              /\ UNCHANGED << orchVars, c_term, c_limit, c_seen >>
                      /\ UNCHANGED << heldVars, calls, contacted, appVars, retVars >>

(***************************************************************************)
(* search_images_duckduckgo (icon_search.py:370-448)                       *)
(***************************************************************************)
DdgReturn(rs) ==
    /\ ddg_results' = rs
    /\ pc' = "phase3_merge"
    /\ FrameDropped
    /\ UNCHANGED << search_term, all_results, seen_urls, simpleicons_results, iconify_results >>

\* lines 383-401; DDGS() raising is caught at line 446
DdgEntry ==
    /\ pc = "ddg_entry"
    /\ IF ~Truthy(c_term) \/ ~Truthy(Strip(c_term))
       THEN DdgReturn(<<>>)
       ELSE \E provider \in ProviderStates :
               IF provider = "ok"
               THEN /\ c_results' = <<>> /\ c_seen' = {} /\ idx' = 1
                    /\ pc' = "ddg_loop"
                    /\ UNCHANGED << orchVars, c_term, c_limit >>
               ELSE DdgReturn(<<>>)
    /\ UNCHANGED << heldVars, envVars, appVars, retVars >>

\* the end of the web search cutting to limit before dropping the non-square
DdgFinishCutFirst(results, lim) == SelectSeq(Slice(SortByScore(results), lim), is_square)

\* lines 437-444: keep the square ones, sort by score, cut to limit
DdgFinish(results, lim) == Slice(SortByScore(SelectSeq(results, is_square)), lim)

\* the four phrased sub-queries (lines 392-397)
SubQueries == 4

\* lines 404-406 and 437-444: the loop head, up to calling ddgs.images
DdgLoop ==
    /\ pc = "ddg_loop"
    /\ IF idx > SubQueries
       THEN DdgReturn(DdgFinish(c_results, c_limit)) /\ UNCHANGED << envVars, appVars >>
       ELSE /\ pc' = "ddg_images"
            /\ RequestSent
            /\ UNCHANGED << orchVars, clientVars >>
    /\ UNCHANGED << heldVars, retVars >>

\* what a response adds to all_results and seen_urls (lines 408-432); the
\* hits before a malformed one are appended before it raises, and `except
\* Exception: continue` (433-435) leaves them in all_results
DdgResponse(results, seen, resp) ==
    IF resp.kind \in { "ok", "malformed" } THEN DdgHits([results |-> results, seen |-> seen], resp.hits)
    ELSE [results |-> results, seen |-> seen]

\* the web-search request without its `except Exception`: the error leaves
\* search_images_duckduckgo and search_icons
DdgRequestEscapes ==
    /\ Propagate("Exception", alarm)
    /\ UNCHANGED << heldVars, orchVars, clientVars, calls, contacted >>

\* the sub-query without its own try: the outer `except Exception: return []`
\* ends the whole web search at the first failing sub-query
DdgRequestAborts ==
    /\ DdgReturn(<<>>)
    /\ UNCHANGED << heldVars, calls, contacted, appVars, retVars >>

\* lines 433-435: except Exception: continue
DdgRequestFailed ==
    /\ idx' = idx + 1
    /\ pc' = "ddg_loop"
    /\ UNCHANGED << heldVars, orchVars, c_term, c_limit, c_results, c_seen, calls, contacted,
                    appVars, retVars >>

\* lines 406-432: the answer of ddgs.images
DdgImages ==
    /\ pc = "ddg_images"
    /\ \E resp \in WebAnswers(idx, c_term) :
          /\ answers' = IF caller = "client"
                        THEN Append(answers, Answered(idx, resp))
                        ELSE answers
          /\ IF resp.kind = "exc" THEN DdgRequestFailed
             ELSE /\ LET st == DdgResponse(c_results, c_seen, resp)
                     IN  c_results' = st.results /\ c_seen' = st.seen
                  /\ idx' = idx + 1
                  /\ pc' = "ddg_loop"
                  /\ UNCHANGED << heldVars, orchVars, c_term, c_limit, calls, contacted,
                                  appVars, retVars >>

(***************************************************************************)
(* The 10-second alarm of action_search_icons (app.py:359-364)             *)
(***************************************************************************)
\* positions of search_icons' own body and of the clients before their try
InOrchestrator ==
    pc \in { "si_entry", "phase1", "phase1_merge", "phase2", "phase2_merge", "phase3",
             "phase3_merge", "sort", "ret", "simple_entry", "iconify_entry", "ddg_entry" }

\* timeout_handler raises TimeoutError in whatever frame is running.  Inside a
\* client the per-request `except Exception: continue` or the outer
\* `except Exception: return []` catches it; what the interrupted request had
\* already appended stays.
AlarmFires ==
    /\ alarm = "armed"
    /\ pc \notin { "idle", "done" }
    /\ CASE InOrchestrator ->
              /\ Propagate("TimeoutError", "fired")
              /\ UNCHANGED << orchVars, clientVars >>
         [] pc = "simple_loop" ->
              /\ SimpleIconsReturn(<<>>)
              /\ alarm' = "fired"
              /\ UNCHANGED << lateRequest, outcome, retVars >>
         [] pc = "iconify_loop" ->
              /\ IconifyReturn(<<>>)
              /\ alarm' = "fired"
              /\ UNCHANGED << lateRequest, outcome, retVars >>
         [] pc = "ddg_loop" ->
              /\ DdgReturn(<<>>)
              /\ alarm' = "fired"
              /\ UNCHANGED << lateRequest, outcome, retVars >>
         [] pc = "simple_head" ->
              /\ \E resp \in CdnAnswers :
                    c_results' = SimpleIconsResponse(c_results, resp,
                                                     SimpleIconsVariations(c_term)[idx])
              /\ idx' = idx + 1 /\ pc' = "simple_loop" /\ alarm' = "fired"
              /\ UNCHANGED << orchVars, c_term, c_limit, c_seen, lateRequest, outcome, retVars >>
         [] pc = "iconify_get" ->
              /\ \E resp \in CatalogAnswers(idx, IconifyTerm(c_term)) :
                    c_results' = IconifyResponse(c_results, resp, c_limit)
              /\ idx' = idx + 1 /\ pc' = "iconify_loop" /\ alarm' = "fired"
              /\ UNCHANGED << orchVars, c_term, c_limit, c_seen, lateRequest, outcome, retVars >>
         [] pc = "ddg_images" ->
              /\ \E resp \in WebAnswers(idx, c_term) :
                    LET st == DdgResponse(c_results, c_seen, resp)
                    IN  c_results' = st.results /\ c_seen' = st.seen
              /\ idx' = idx + 1 /\ pc' = "ddg_loop" /\ alarm' = "fired"
              /\ UNCHANGED << orchVars, c_term, c_limit, lateRequest, outcome, retVars >>
    /\ UNCHANGED << heldVars, envVars >>


(***************************************************************************)
(* calculate_current_score applied to arbitrary candidates                 *)
(***************************************************************************)
NoCandidate == [title |-> <<>>, image_url |-> <<>>, thumbnail_url |-> <<>>,
                source |-> "none", width |-> 0, height |-> 0]

ScoreInit == s_cand = NoCandidate /\ s_score = 0 /\ s_square = TRUE

ScoredSources == { "github", "simpleicons", "iconify", "duckduckgo" }
Words == { <<"F", "i", "r", "e", "f", "o", "x">>, <<"O", "f", "f", "i", "c", "i", "a", "l">>, <<"p", "r", "i", "m", "a", "r", "y">>, <<"l", "o", "g", "o", " ", "2", "0", "2", "4">>, <<"2", "0", "2", "6">>, <<"C", "u", "r", "r", "e", "n", "t">>,
           <<"b", "r", "a", "n", "d">>, <<"G", "o", "l", "d">>, <<"L", "E", "G", "A", "C", "Y">>, <<"v", "i", "n", "t", "a", "g", "e">>, <<"H", "i", "s", "t", "o", "r", "i", "c", "a", "l">>, <<"r", "e", "t", "r", "o">>, <<"h", "i", "s", "t", "o", "r", "y">> }
RECURSIVE TitlesOf(_)
TitlesOf(n) ==
    IF n = 0 THEN { <<>> }
    ELSE TitlesOf(n - 1)
         \cup { IF t = <<>> THEN w ELSE t \o <<" ">> \o w : t \in TitlesOf(n - 1), w \in Words }
Titles == TitlesOf(MaxWords)
Widths == { 0, 1, 255, 256, 1024 }
Heights == { 0, 512, 1024 }

\* r.calculate_current_score() for a candidate r
ScoreCandidate ==
    /\ s_cand = NoCandidate
    /\ \E src \in ScoredSources, t \in Titles, w \in Widths, h \in Heights :
          /\ s_cand' = IconResult(t, <<"h", "t", "t", "p", "s", ":", "/", "/", "e", ".", "o", "r", "g", "/", "i", ".", "p", "n", "g">>, <<"h", "t", "t", "p", "s", ":", "/", "/", "e", ".", "o", "r", "g", "/", "i", ".", "p", "n", "g">>, src, w, h)
          /\ s_score' = calculate_current_score(s_cand')
          /\ s_square' = is_square(s_cand')
    /\ UNCHANGED << searchVars, downloadVars, termVars, desktopVars, suggestVars, formVars >>

\* the widths and heights is_square is tried on
SquareDims == { 0, 1, 9, 10, 11, 512, 899, 900, 1000, 1100, 1101 }

\* r.is_square for a candidate r of any width and height
SquareCandidate ==
    /\ s_cand = NoCandidate
    /\ \E w \in SquareDims, h \in SquareDims :
          /\ s_cand' = IconResult(<<"I", "c", "o", "n">>, <<"u">>, <<"u">>, "duckduckgo", w, h)
          /\ s_square' = is_square(s_cand')
          /\ s_score' = calculate_current_score(s_cand')
    /\ UNCHANGED << searchVars, downloadVars, termVars, desktopVars, suggestVars, formVars >>

(***************************************************************************)
(* IconResult.download_image (icon_search.py:162-210)                      *)
(***************************************************************************)
TempDir == <<"/", "t", "m", "p">>
IconsDir == <<"/", "h", "o", "m", "e", "/", "u", "/", ".", "l", "o", "c", "a", "l", "/", "s", "h", "a", "r", "e", "/", "i", "c", "o", "n", "s", "/", "h", "i", "c", "o", "l", "o", "r", "/", "5", "1", "2", "x", "5", "1", "2", "/", "a", "p", "p", "s">>

\* s.split(sep)[0] and s.split(sep)[-1] for a one-character sep
RECURSIVE SplitFirst(_, _)
SplitFirst(s, sep) ==
    IF s = <<>> \/ Head(s) = sep THEN <<>> ELSE <<Head(s)>> \o SplitFirst(Tail(s), sep)
RECURSIVE SplitLast(_, _)
SplitLast(s, sep) ==
    IF s = <<>> \/ s[Len(s)] = sep THEN <<>>
    ELSE Append(SplitLast(SubSeq(s, 1, Len(s) - 1), sep), s[Len(s)])

ImageExtensions == { <<"j", "p", "g">>, <<"j", "p", "e", "g">>, <<"p", "n", "g">>, <<"g", "i", "f">>, <<"s", "v", "g">>, <<"w", "e", "b", "p">> }

\* lines 178-182
DownloadExt(image_url) ==
    LET url_ext == StrLower(SplitLast(SplitFirst(image_url, "?"), "."))
    IN  IF Truthy(image_url) /\ url_ext \in ImageExtensions THEN <<".">> \o url_ext ELSE <<".", "p", "n", "g">>

\* lines 185-188
IsSafeChar(c) == IsAlnum(c) \/ c \in { " ", "-", "_" }
DownloadFilename(title, image_url) ==
    LET safe_title == Slice(Strip(SelectSeq(title, IsSafeChar)), 50)
    IN  safe_title \o DownloadExt(image_url)

\* lines 174-175 and 200
DownloadPath(icon, target_dir) ==
    (IF target_dir = None THEN TempDir ELSE target_dir)
        \o <<"/">> \o DownloadFilename(icon.title, icon.image_url)

\* open(file_path, "ab"): the chunks are appended to what the file held
WriteAppend(fs, path, content) ==
    [p \in DOMAIN fs \cup {path} |->
        IF p = path THEN (IF path \in DOMAIN fs THEN fs[path] ELSE <<>>) \o content
        ELSE fs[p]]

\* open(file_path, "wb") and the write loop: the file holds exactly content
WriteFile(fs, path, content) ==
    [p \in DOMAIN fs \cup {path} |-> IF p = path THEN content ELSE fs[p]]

\* download_image clearing local_path when the download fails
download_image_reset_on_failure(icon, fs, target_dir, net) ==
    LET file_path == DownloadPath(icon, target_dir)
    IN  CASE net.kind \in { "get_raises", "http_error", "open_raises" } ->
               [icon |-> [icon EXCEPT !.local_path = None], fs |-> fs,
                ret |-> None, raised |-> FALSE]
          [] net.kind = "write_raises" ->
               [icon |-> [icon EXCEPT !.local_path = None],
                fs |-> WriteFile(fs, file_path, SubSeq(net.chunks, 1, net.after)),
                ret |-> None, raised |-> FALSE]
          [] OTHER ->
               [icon |-> [icon EXCEPT !.local_path = file_path],
                fs |-> WriteFile(fs, file_path, net.chunks),
                ret |-> file_path, raised |-> FALSE]

\* download_image assigning local_path before the file is written
download_image_path_first(icon, fs, target_dir, net) ==
    LET file_path == DownloadPath(icon, target_dir)
    IN  CASE net.kind \in { "get_raises", "http_error", "open_raises" } ->
               [icon |-> icon, fs |-> fs, ret |-> None, raised |-> FALSE]
          [] net.kind = "write_raises" ->
               [icon |-> [icon EXCEPT !.local_path = file_path],
                fs |-> WriteFile(fs, file_path, SubSeq(net.chunks, 1, net.after)),
                ret |-> None, raised |-> FALSE]
          [] OTHER ->
               [icon |-> [icon EXCEPT !.local_path = file_path],
                fs |-> WriteFile(fs, file_path, net.chunks),
                ret |-> file_path, raised |-> FALSE]

\* download_image on icon, with the files fs, when network and disk do net:
\* the icon after the call, the files after it, the return value, whether it raised
download_image(icon, fs, target_dir, net) ==
    LET file_path == DownloadPath(icon, target_dir)
    IN  CASE net.kind \in { "get_raises", "http_error", "open_raises" } ->
               \* requests.get, raise_for_status or open raised: lines 208-210
               [icon |-> icon, fs |-> fs, ret |-> None, raised |-> FALSE]
          [] net.kind = "write_raises" ->
               \* open truncated the file, net.after chunks were written
               [icon |-> icon,
                fs |-> WriteFile(fs, file_path, SubSeq(net.chunks, 1, net.after)),
                ret |-> None, raised |-> FALSE]
          [] OTHER ->
               \* lines 201-206
               [icon |-> [icon EXCEPT !.local_path = file_path],
                fs |-> WriteFile(fs, file_path, net.chunks),
                ret |-> file_path, raised |-> FALSE]

DownloadInit ==
    /\ d_icon = [title |-> <<>>, image_url |-> <<>>, local_path |-> None]
    /\ d_fs = << >>
    /\ d_dir = None /\ d_net = [kind |-> "none"]
    /\ d_ret = None /\ d_raised = FALSE /\ d_calls = 0
    /\ d_repeat = FALSE

\* the candidates the user can pick, as search_icons built them
DownloadIcons ==
    { [title |-> SimpleIconsResult(<<"f", "i", "r", "e", "f", "o", "x">>).title,
       image_url |-> SimpleIconsResult(<<"f", "i", "r", "e", "f", "o", "x">>).image_url],
      [title |-> IconifyResult(<<"l", "o", "g", "o", "s", ":", "f", "i", "r", "e", "f", "o", "x">>).title,
       image_url |-> IconifyResult(<<"l", "o", "g", "o", "s", ":", "f", "i", "r", "e", "f", "o", "x">>).image_url],
      [title |-> <<"O", "f", "f", "i", "c", "i", "a", "l", " ", "L", "o", "g", "o">>, image_url |-> <<"h", "t", "t", "p", "s", ":", "/", "/", "e", ".", "o", "r", "g", "/", "l", "o", "g", "o", ".", "P", "N", "G", "?", "s", "i", "z", "e", "=", "5", "1", "2">>],
      [title |-> <<".", ".", "/", "O", "l", "d", "_", "i", "c", "o", "n">>, image_url |-> <<"h", "t", "t", "p", "s", ":", "/", "/", "e", ".", "o", "r", "g", "/", "x">>] }
TargetDirs == { None, TempDir, IconsDir }
\* what the URL serves: chunks 1..n
Contents == { [i \in 1..n |-> i] : n \in 0..MaxChunks }
NetOutcomes ==
    { [kind |-> k] : k \in { "get_raises", "http_error", "open_raises" } }
    \cup { [kind |-> "ok", chunks |-> c] : c \in Contents }
    \cup UNION { { [kind |-> "write_raises", chunks |-> c, after |-> n] :
                      n \in 0..(Len(c) - 1) } : c \in Contents }

\* IconResult(...): a fresh candidate, local_path None (line 54)
NewIcon ==
    /\ d_calls = 0 /\ d_icon.title = <<>>
    /\ \E c \in DownloadIcons :
          d_icon' = [title |-> c.title, image_url |-> c.image_url, local_path |-> None]
    /\ UNCHANGED << searchVars, scoreVars, termVars, desktopVars, suggestVars, formVars, d_fs, d_dir, d_net, d_ret, d_raised, d_calls,
                    d_repeat >>

\* icon.download_image(target_dir)
DownloadImage ==
    /\ d_icon.title # <<>>
    /\ d_calls < MaxDownloads
    /\ \E dir \in TargetDirs, net \in NetOutcomes :
          LET out == download_image(d_icon, d_fs, dir, net)
          IN  /\ d_icon' = out.icon /\ d_fs' = out.fs
              /\ d_ret' = out.ret /\ d_raised' = out.raised
              /\ d_dir' = dir /\ d_net' = net
              /\ d_repeat' = (/\ d_calls >= 1 /\ d_dir = dir
                              /\ d_net.kind = "ok" /\ net.kind = "ok"
                              /\ d_net.chunks = net.chunks)
    /\ d_calls' = d_calls + 1
    /\ UNCHANGED << searchVars, scoreVars, termVars, desktopVars, suggestVars, formVars >>

(***************************************************************************)
(* extract_search_term applied to names and exec paths                     *)
(***************************************************************************)
TermInit == e_name = <<>> /\ e_exec = <<>> /\ e_term = None

TermNames == { <<>>, <<" ", " ">>, <<"F", "i", "r", "e", "f", "o", "x">>, <<" ", "M", "y", " ", "A", "p", "p", " ">>, <<"x", ".", "s", "h">>, <<"a">>, <<"G", "o", "l", "d", "\t">>, <<"V", "S", " ", "C", "o", "d", "e">>, <<" ", ".", " ">> }
TermExecs ==
    { <<>>, <<" ", " ", " ">>, <<"/", "u", "s", "r", "/", "b", "i", "n", "/", "f", "i", "r", "e", "f", "o", "x">>, <<"/", "u", "s", "r", "/", "b", "i", "n", "/", "s", "c", "r", "i", "p", "t", ".", "s", "h">>, <<"/", "h", "o", "m", "e", "/", "u", "/", "M", "y", "A", "p", "p", "-", "1", ".", "0", ".", "A", "p", "p", "I", "m", "a", "g", "e">>,
      <<"/", "o", "p", "t", "/", "t", "o", "o", "l", ".", "p", "y", ".", "s", "h">>, <<"/", "o", "p", "t", "/", "t", "o", "o", "l", ".", "s", "h", ".", "p", "y">>, <<"x", ".", "e", "x", "e">>, <<"/", "o", "p", "t", "/", "a", "p", "p", ".", "a", "p", "p", "i", "m", "a", "g", "e">>, <<".", "s", "h">>,
      <<"/", "o", "p", "t", "/", "r", "u", "n", ".", "b", "i", "n", "/">>, <<" ", "/", "o", "p", "t", "/", "a", ".", "p", "y">> }

\* extract_search_term(name, exec_path)
ExtractTerm ==
    /\ e_term = None
    /\ \E nm \in TermNames, ep \in TermExecs :
          /\ e_name' = nm /\ e_exec' = ep
          /\ e_term' = extract_search_term(nm, ep)
    /\ UNCHANGED << searchVars, scoreVars, downloadVars, desktopVars, suggestVars, formVars >>

(***************************************************************************)
(* generate_desktop_content and parse_desktop_content (desktop_file.py)    *)
(***************************************************************************)
\* an Optional[DesktopFileData] is << >> for None and << d >> for a d
DesktopInit == f_data = <<>> /\ f_text = <<>> /\ f_parsed = <<>>

\* s.split(sep) for a one-character sep: "".split(sep) is [""]
Split(s, sep) ==
    LET seps == { i \in DOMAIN s : s[i] = sep }
        pos(k) == CHOOSE i \in seps : Cardinality({ j \in seps : j < i }) = k - 1
        n == Cardinality(seps) + 1
    IN  [k \in 1..n |->
            SubSeq(s, IF k = 1 THEN 1 ELSE pos(k - 1) + 1,
                      IF k = n THEN Len(s) ELSE pos(k) - 1)]

\* sep.join(parts)
RECURSIVE Join(_, _)
Join(parts, sep) ==
    IF parts = <<>> THEN <<>>
    ELSE IF Len(parts) = 1 THEN parts[1]
         ELSE parts[1] \o <<sep>> \o Join(Tail(parts), sep)

\* DesktopFileData (desktop_file.py:11-26); an Optional[List[str]] that is
\* None is kept as the empty list, which to_dict treats the same
DesktopFileData(name_, exec_path_, icon, comment, categories, terminal) ==
    [name |-> name_, exec_path |-> exec_path_, icon |-> icon, comment |-> comment,
     categories |-> categories, type_ |-> <<"A", "p", "p", "l", "i", "c", "a", "t", "i", "o", "n">>, terminal |-> terminal,
     no_display |-> FALSE, hidden |-> FALSE, mime_types |-> <<>>, keywords |-> <<>>,
     startup_notify |-> TRUE]

\* x or "" for an Optional[str]; ";".join(x) if x else "" for an Optional[List[str]]
OrEmpty(x) == IF x = None THEN <<>> ELSE x
JoinOrEmpty(x) == IF x = <<>> THEN <<>> ELSE Join(x, ";")
BoolText(b) == IF b THEN <<"t", "r", "u", "e">> ELSE <<"f", "a", "l", "s", "e">>

\* DesktopFileData.to_dict: the keys in insertion order, and their values
DictKeys ==
    << <<"N", "a", "m", "e">>, <<"E", "x", "e", "c">>, <<"I", "c", "o", "n">>, <<"C", "o", "m", "m", "e", "n", "t">>, <<"T", "y", "p", "e">>, <<"T", "e", "r", "m", "i", "n", "a", "l">>, <<"N", "o", "D", "i", "s", "p", "l", "a", "y">>, <<"H", "i", "d", "d", "e", "n">>,
       <<"C", "a", "t", "e", "g", "o", "r", "i", "e", "s">>, <<"M", "i", "m", "e", "T", "y", "p", "e">>, <<"K", "e", "y", "w", "o", "r", "d", "s">>, <<"S", "t", "a", "r", "t", "u", "p", "N", "o", "t", "i", "f", "y">> >>
to_dict(d) ==
    << d.name, d.exec_path, OrEmpty(d.icon), OrEmpty(d.comment), d.type_,
       BoolText(d.terminal), BoolText(d.no_display), BoolText(d.hidden),
       JoinOrEmpty(d.categories), JoinOrEmpty(d.mime_types), JoinOrEmpty(d.keywords),
       BoolText(d.startup_notify) >>

\* data[key] for a dict kept as keys and values; the last assignment to a key
\* is the one that counts
HasKey(keys, key) == \E i \in DOMAIN keys : keys[i] = key
Lookup(keys, values, key) ==
    values[CHOOSE i \in DOMAIN keys :
              keys[i] = key /\ \A j \in DOMAIN keys : keys[j] = key => j <= i]

field_order ==
    << <<"T", "y", "p", "e">>, <<"V", "e", "r", "s", "i", "o", "n">>, <<"N", "a", "m", "e">>, <<"C", "o", "m", "m", "e", "n", "t">>, <<"E", "x", "e", "c">>, <<"I", "c", "o", "n">>, <<"T", "e", "r", "m", "i", "n", "a", "l">>, <<"C", "a", "t", "e", "g", "o", "r", "i", "e", "s">>,
       <<"K", "e", "y", "w", "o", "r", "d", "s">>, <<"M", "i", "m", "e", "T", "y", "p", "e">>, <<"N", "o", "D", "i", "s", "p", "l", "a", "y">>, <<"H", "i", "d", "d", "e", "n">>, <<"S", "t", "a", "r", "t", "u", "p", "N", "o", "t", "i", "f", "y">> >>

\* lines 83-85: one line per field of field_order that is in the dict with a
\* non-empty value
RECURSIVE FieldLines(_, _)
FieldLines(fields, values) ==
    IF fields = <<>> THEN <<>>
    ELSE (IF HasKey(DictKeys, Head(fields)) /\ Truthy(Lookup(DictKeys, values, Head(fields)))
          THEN << Head(fields) \o <<"=">> \o Lookup(DictKeys, values, Head(fields)) >>
          ELSE <<>>)
         \o FieldLines(Tail(fields), values)

generate_desktop_content(d) ==
    Join(<< <<"[", "D", "e", "s", "k", "t", "o", "p", " ", "E", "n", "t", "r", "y", "]">> >> \o FieldLines(field_order, to_dict(d)), "\n") \o <<"\n">>


\* key, value = line.split("=", 1), both stripped (lines 110-111)
FirstIndex(s, c) == CHOOSE i \in DOMAIN s : s[i] = c /\ \A j \in 1..(i - 1) : s[j] # c
KeyValueAtLastEquals(line) ==
    LET i == CHOOSE k \in DOMAIN line : line[k] = "=" /\ \A j \in (k + 1)..Len(line) : line[j] # "="
    IN  [key |-> Strip(SubSeq(line, 1, i - 1)), value |-> Strip(SubSeq(line, i + 1, Len(line)))]
KeyValue(line) ==
    LET i == FirstIndex(line, "=")
    IN  [key |-> Strip(SubSeq(line, 1, i - 1)), value |-> Strip(SubSeq(line, i + 1, Len(line)))]

\* lines 105-111: the dict the lines after the header fill, as keys and values
RECURSIVE ParseLines(_, _)
ParseLines(lines, data) ==
    IF lines = <<>> THEN data
    ELSE ParseLines(
            Tail(lines),
            IF ~Contains(Head(lines), <<"=">>) \/ StartsWith(Head(lines), <<"#">>) THEN data
            ELSE [keys |-> Append(data.keys, KeyValue(Head(lines)).key),
                  values |-> Append(data.values, KeyValue(Head(lines)).value)])

\* data.get(key, default)
Get(data, key, default) ==
    IF HasKey(data.keys, key) THEN Lookup(data.keys, data.values, key) ELSE default

\* [c.strip() for c in text.split(";") if c.strip()] or None
RECURSIVE StripAll(_)
StripAll(parts) == IF parts = <<>> THEN <<>> ELSE << Strip(Head(parts)) >> \o StripAll(Tail(parts))
ListOrNone(text) ==
    SelectSeq(StripAll(Split(text, ";")), Truthy)

parse_desktop_content(content) ==
    LET lines == Split(Strip(content), "\n")
        data == ParseLines(Tail(lines), [keys |-> <<>>, values |-> <<>>])
    IN  IF lines[1] # <<"[", "D", "e", "s", "k", "t", "o", "p", " ", "E", "n", "t", "r", "y", "]">> THEN <<>>
        ELSE IF ~HasKey(data.keys, <<"N", "a", "m", "e">>) \/ ~HasKey(data.keys, <<"E", "x", "e", "c">>) THEN <<>>
        ELSE << [name |-> Get(data, <<"N", "a", "m", "e">>, None),
              exec_path |-> Get(data, <<"E", "x", "e", "c">>, None),
              icon |-> Get(data, <<"I", "c", "o", "n">>, None),
              comment |-> Get(data, <<"C", "o", "m", "m", "e", "n", "t">>, None),
              categories |-> ListOrNone(Get(data, <<"C", "a", "t", "e", "g", "o", "r", "i", "e", "s">>, <<>>)),
              type_ |-> Get(data, <<"T", "y", "p", "e">>, <<"A", "p", "p", "l", "i", "c", "a", "t", "i", "o", "n">>),
              terminal |-> StrLower(Get(data, <<"T", "e", "r", "m", "i", "n", "a", "l">>, <<"f", "a", "l", "s", "e">>)) = <<"t", "r", "u", "e">>,
              no_display |-> StrLower(Get(data, <<"N", "o", "D", "i", "s", "p", "l", "a", "y">>, <<"f", "a", "l", "s", "e">>)) = <<"t", "r", "u", "e">>,
              hidden |-> StrLower(Get(data, <<"H", "i", "d", "d", "e", "n">>, <<"f", "a", "l", "s", "e">>)) = <<"t", "r", "u", "e">>,
              mime_types |-> ListOrNone(Get(data, <<"M", "i", "m", "e", "T", "y", "p", "e">>, <<>>)),
              keywords |-> ListOrNone(Get(data, <<"K", "e", "y", "w", "o", "r", "d", "s">>, <<>>)),
              startup_notify |-> StrLower(Get(data, <<"S", "t", "a", "r", "t", "u", "p", "N", "o", "t", "i", "f", "y">>, <<"t", "r", "u", "e">>)) = <<"t", "r", "u", "e">>] >>

\* the form values that are turned into a DesktopFileData
DataNames == { <<>>, <<"A", "p", "p">>, <<" ", "A", "p", "p">>, <<"A", "=", "B">>, <<"A", "\n", "E", "x", "e", "c", "=", "x">>, <<"M", "y", " ", "A", "p", "p">> }
DataExecs == { <<>>, <<"/", "b", "i", "n", "/", "a">>, <<"/", "b", "i", "n", "/", "a", " ", "%", "U", " ">> }
DataIcons == { None, <<>>, <<"i", "c", "o", "n">>, <<" ", "i", "c", "o", "n">>, <<"#", "i">> }
DataComments == { None, <<"c">>, <<"c", "\n", "N", "a", "m", "e", "=", "E">> }
DataCategories == { <<>>, << <<"U", "t", "i", "l", "i", "t", "y">> >>, << <<"A">>, <<" ", "B", " ">> >> }

\* parse_desktop_content(generate_desktop_content(data))
GenerateAndParse ==
    /\ f_data = <<>>
    /\ \E nm \in DataNames, ep \in DataExecs, ic \in DataIcons, cm \in DataComments,
          cats \in DataCategories, term \in BOOLEAN :
          /\ f_data' = << DesktopFileData(nm, ep, ic, cm, cats, term) >>
          /\ f_text' = generate_desktop_content(f_data'[1])
          /\ f_parsed' = parse_desktop_content(f_text')
    /\ UNCHANGED << searchVars, scoreVars, downloadVars, termVars, suggestVars, formVars >>

(***************************************************************************)
(* ExecutableSuggester (exec_suggester.py:13-239)                          *)
(***************************************************************************)
\* most get_suggestion calls on one suggester
MaxQueries == 3

\* os.path.expanduser("~")
Home == <<"/", "h", "o", "m", "e", "/", "u">>
\* the suffix " \U0001F80A" of a suggestion, its arrow written ">"
Arrow == <<" ", ">">>

\* what the disk can hold, as str(item) sorts it: directories (with the "/"
\* the directory search appends) always there, files there when in g_fs
SuggestItems ==
    << [path |-> <<"/", "h", "o", "m", "e", "/">>, dir |-> TRUE, exe |-> FALSE],
       [path |-> <<"/", "h", "o", "m", "e", "/", "u", "/">>, dir |-> TRUE, exe |-> FALSE],
       [path |-> <<"/", "o", "p", "t", "/">>, dir |-> TRUE, exe |-> FALSE],
       [path |-> <<"/", "o", "p", "t", "/", "a", "p", "p", ".", "A", "p", "p", "I", "m", "a", "g", "e">>, dir |-> FALSE, exe |-> FALSE],
       [path |-> <<"/", "u", "s", "r", "/">>, dir |-> TRUE, exe |-> FALSE],
       [path |-> <<"/", "u", "s", "r", "/", "b", "i", "n", "/">>, dir |-> TRUE, exe |-> FALSE],
       [path |-> <<"/", "u", "s", "r", "/", "b", "i", "n", "/", "f", "i", "r", "e">>, dir |-> FALSE, exe |-> TRUE],
       [path |-> <<"/", "u", "s", "r", "/", "b", "i", "n", "/", "f", "o", "o", ".", "t", "x", "t">>, dir |-> FALSE, exe |-> FALSE],
       [path |-> <<"/", "u", "s", "r", "/", "b", "i", "n", "/", "f", "o", "x">>, dir |-> FALSE, exe |-> TRUE] >>
FsStates ==
    { {},
      { <<"/", "u", "s", "r", "/", "b", "i", "n", "/", "f", "o", "o", ".", "t", "x", "t">>, <<"/", "u", "s", "r", "/", "b", "i", "n", "/", "f", "o", "x">> },
      { <<"/", "o", "p", "t", "/", "a", "p", "p", ".", "A", "p", "p", "I", "m", "a", "g", "e">>, <<"/", "u", "s", "r", "/", "b", "i", "n", "/", "f", "i", "r", "e">>, <<"/", "u", "s", "r", "/", "b", "i", "n", "/", "f", "o", "o", ".", "t", "x", "t">>, <<"/", "u", "s", "r", "/", "b", "i", "n", "/", "f", "o", "x">> } }
SuggestValues == { <<>>, <<"f">>, <<"f", "o">>, <<"a", "p", "p">>, <<"/", "u", "s", "r", "/", "b", "i", "n", "/", "f">>, <<"/", "u", "s", "r", "/">>, <<"~", "/">>, <<"/", "o", "p", "t", "/", "a">> }

\* str(Path(p)), str(Path(p).parent)
PathStr(abs, parts) ==
    IF parts = <<>> THEN (IF abs THEN <<"/">> ELSE <<".">>)
    ELSE (IF abs THEN <<"/">> ELSE <<>>) \o Join(parts, "/")
IsAbs(p) == p # <<>> /\ Head(p) = "/"
PathNormal(p) == PathStr(IsAbs(p), PathParts(p, <<>>, <<>>))
PathParent(p) ==
    LET parts == PathParts(p, <<>>, <<>>)
    IN  PathStr(IsAbs(p), SubSeq(parts, 1, Len(parts) - 1))
expanduser(p) == IF p = <<"~">> \/ StartsWith(p, <<"~", "/">>) THEN Home \o Tail(p) ELSE p

\* lines 34-53: the common paths that exist on this disk
CommonPaths == { <<"/", "u", "s", "r", "/", "b", "i", "n">>, <<"/", "o", "p", "t">> }
IsExecutable(item) == item.exe \/ EndsWith(StrLower(PathName(item.path)), <<".", "a", "p", "p", "i", "m", "a", "g", "e">>)
PathsOf(items) == [i \in DOMAIN items |-> items[i].path]

\* lines 55-83: sorted(executables)
_scan_executables(fs) ==
    PathsOf(SelectSeq(SuggestItems,
                      LAMBDA item : /\ ~item.dir /\ item.path \in fs
                                    /\ PathParent(item.path) \in CommonPaths
                                    /\ IsExecutable(item)))

\* lines 111-160: directories with a trailing "/", executables without
_search_directory_for_executables(fs, directory, prefix) ==
    IF ~(\/ directory = <<"/">>
         \/ \E i \in DOMAIN SuggestItems :
               SuggestItems[i].dir /\ PathNormal(SuggestItems[i].path) = directory)
    THEN <<>>
    ELSE PathsOf(SelectSeq(SuggestItems,
                           LAMBDA item : /\ item.dir \/ item.path \in fs
                                         /\ PathParent(item.path) = directory
                                         /\ ~StartsWith(PathName(item.path), <<".">>)
                                         /\ prefix = <<>> \/ StartsWith(PathName(item.path), prefix)
                                         /\ item.dir \/ IsExecutable(item)))

\* lines 222-239: the first executable whose path or name starts with value
RECURSIVE FirstExecutable(_, _, _)
FirstExecutable(executables, value, case_sensitive) ==
    IF executables = <<>> THEN None
    ELSE LET exe_path == Head(executables)
             search_value == IF case_sensitive THEN value ELSE StrLower(value)
             exe_compare == IF case_sensitive THEN exe_path ELSE StrLower(exe_path)
             exe_name == PathName(exe_path)
             exe_name_compare == IF case_sensitive THEN exe_name ELSE StrLower(exe_name)
         IN  IF StartsWith(exe_compare, search_value) \/ StartsWith(exe_name_compare, search_value)
             THEN exe_path \o Arrow
             ELSE FirstExecutable(Tail(executables), value, case_sensitive)

\* lines 100-109 and 217-239: the name-based branch.  _get_common_paths lists
\* /opt outside any try (lines 46-51): where that raises, _scan_executables
\* raises, _executables stays None and the error leaves get_suggestion
get_suggestion_by_name(value, executables, fs, readable) ==
    IF executables # <<>>
    THEN [executables |-> executables, scanned |-> FALSE,
          result |-> FirstExecutable(executables[1], value, TRUE), raised |-> FALSE]
    ELSE IF ~readable
         THEN [executables |-> <<>>, scanned |-> TRUE, result |-> None, raised |-> TRUE]
         ELSE [executables |-> << _scan_executables(fs) >>, scanned |-> TRUE,
               result |-> FirstExecutable(_scan_executables(fs), value, TRUE),
               raised |-> FALSE]

\* lines 162-239, for the suggester the form builds (case_sensitive=True)
get_suggestion(value, executables, fs, readable) ==
    IF ~Truthy(value)
    THEN [executables |-> executables, scanned |-> FALSE, result |-> None, raised |-> FALSE]
    ELSE IF Contains(value, <<"/">>)
    THEN LET uses_tilde == StartsWith(value, <<"~", "/">>)
             directory == IF EndsWith(value, <<"/">>) THEN PathNormal(value) ELSE PathParent(value)
             prefix == IF EndsWith(value, <<"/">>) THEN <<>> ELSE PathName(value)
             items == _search_directory_for_executables(fs, PathNormal(expanduser(directory)),
                                                        prefix)
             result == IF uses_tilde /\ StartsWith(items[1], Home)
                       THEN <<"~">> \o SubSeq(items[1], Len(Home) + 1, Len(items[1]))
                       ELSE items[1]
         IN  [executables |-> executables, scanned |-> FALSE,
              result |-> IF items # <<>> THEN result \o Arrow ELSE None, raised |-> FALSE]
    ELSE get_suggestion_by_name(value, executables, fs, readable)

Unasked == <<"u", "n", "a", "s", "k", "e", "d">>
SuggestInit ==
    /\ g_fs = {} /\ g_readable = TRUE
    /\ g_executables = <<>> /\ g_scans = 0
    /\ g_value = <<>> /\ g_result = None /\ g_raised = FALSE
    /\ g_first = [v \in { x \in SuggestValues : Truthy(x) /\ ~Contains(x, <<"/">>) } |-> Unasked]
    /\ g_calls = 0

\* await suggester.get_suggestion(value)
GetSuggestion ==
    /\ g_calls < MaxQueries
    /\ \E value \in SuggestValues :
          LET out == get_suggestion(value, g_executables, g_fs, g_readable)
          IN  /\ g_value' = value
              /\ g_executables' = out.executables
              /\ g_scans' = g_scans + (IF out.scanned THEN 1 ELSE 0)
              /\ g_result' = out.result /\ g_raised' = out.raised
              /\ g_first' = IF value \in DOMAIN g_first /\ g_first[value] = Unasked
                                /\ ~out.raised
                            THEN [g_first EXCEPT ![value] = out.result]
                            ELSE g_first
    /\ g_calls' = g_calls + 1
    /\ UNCHANGED << searchVars, scoreVars, downloadVars, termVars, desktopVars, formVars, g_fs,
                    g_readable >>

\* files are installed or removed, before and while the form is open
FsChanges ==
    /\ \E fs \in FsStates \ { g_fs } : g_fs' = fs
    /\ UNCHANGED << searchVars, scoreVars, downloadVars, termVars, desktopVars, formVars, g_readable,
                    g_executables, g_scans, g_value, g_result, g_raised, g_first, g_calls >>

\* /opt, or a directory in it, is closed to or opened for this user
OptPermissions ==
    /\ g_readable' = ~g_readable
    /\ UNCHANGED << searchVars, scoreVars, downloadVars, termVars, desktopVars, formVars, g_fs,
                    g_executables, g_scans, g_value, g_result, g_raised, g_first, g_calls >>

(***************************************************************************)
(* DesktopFileMakerApp: the form, the icon selection and Save (app.py)     *)
(***************************************************************************)
\* most action_save calls in one run of the form
MaxSaves == 3

\* what the user types into the fields
FormAppNames == { <<>>, <<"A", "p", "p">> }
FormExecPaths == { <<>>, <<"/", "u", "s", "r", "/", "b", "i", "n", "/", "a", "p", "p">> }
FormIcons == { <<>>, <<"/", "u", "s", "r", "/", "s", "h", "a", "r", "e", "/", "p", "i", "x", "m", "a", "p", "s", "/", "a", "p", "p", ".", "p", "n", "g">> }
FormCategories == { <<>>, <<"U", "t", "i", "l", "i", "t", "y", ";", " ">>, <<"B", "o", "g", "u", "s">> }

\* the candidates the selection modal offers: display_name, and the file
\* name download_image gives the image
ModalIcons ==
    { [display_name |-> <<"F", "i", "r", "e", "f", "o", "x">>, file |-> <<"f", "i", "r", "e", "f", "o", "x", ".", "p", "n", "g">>],
      [display_name |-> <<"G", "o", "l", "d">>, file |-> <<"g", "o", "l", "d", ".", "s", "v", "g">>] }

\* Path.home() / ".local" / "share" / "icons" / "hicolor" / "512x512" / "apps"
download_dir == Home \o <<"/", ".", "l", "o", "c", "a", "l", "/", "s", "h", "a", "r", "e", "/", "i", "c", "o", "n", "s", "/", "h", "i", "c", "o", "l", "o", "r", "/", "5", "1", "2", "x", "5", "1", "2", "/", "a", "p", "p", "s">>

\* validation.py: each validator's is_valid
validate_name(name_) == ~(name_ = <<>> \/ Strip(name_) = <<>>) /\ ~(Len(name_) > 100)
validate_exec_path(path) == ~(path = <<>> \/ Strip(path) = <<>>) /\ ~(Len(path) > 500)
validate_icon_path(path) == path = None \/ path = <<>> \/ ~(Len(path) > 500)
\* those of valid_categories the form's values can name
valid_categories == { <<"U", "t", "i", "l", "i", "t", "y">>, <<"D", "e", "v", "e", "l", "o", "p", "m", "e", "n", "t">>, <<"G", "a", "m", "e">> }
validate_categories(categories) ==
    \A i \in DOMAIN categories : categories[i] \in valid_categories
validate_all_fields(name_, exec_path_, icon, categories) ==
    /\ validate_name(name_)
    /\ validate_exec_path(exec_path_)
    /\ validate_icon_path(icon)
    /\ validate_categories(categories)

\* [c.strip() for c in parts if c.strip()]
RECURSIVE StrippedNonEmpty(_)
StrippedNonEmpty(parts) ==
    IF parts = <<>> THEN <<>>
    ELSE (IF Strip(Head(parts)) # <<>> THEN << Strip(Head(parts)) >> ELSE <<>>)
         \o StrippedNonEmpty(Tail(parts))

FormInit ==
    /\ a_name = <<>> /\ a_exec = <<>> /\ a_icon = <<>> /\ a_categories = <<>>
    /\ a_pending = <<>>
    /\ a_downloaded = {}
    /\ a_file = <<>>
    /\ a_outcome = "none"
    /\ a_saves = 0

\* the user types into a field; no handler of the app runs
EditName ==
    /\ \E v \in FormAppNames \ { a_name } : a_name' = v
    /\ UNCHANGED << searchVars, scoreVars, downloadVars, termVars, desktopVars, suggestVars,
                    a_exec, a_icon, a_categories, a_pending, a_downloaded, a_file, a_outcome,
                    a_saves >>
EditExec ==
    /\ \E v \in FormExecPaths \ { a_exec } : a_exec' = v
    /\ UNCHANGED << searchVars, scoreVars, downloadVars, termVars, desktopVars, suggestVars,
                    a_name, a_icon, a_categories, a_pending, a_downloaded, a_file, a_outcome,
                    a_saves >>
EditIcon ==
    /\ \E v \in FormIcons \ { a_icon } : a_icon' = v
    /\ UNCHANGED << searchVars, scoreVars, downloadVars, termVars, desktopVars, suggestVars,
                    a_name, a_exec, a_categories, a_pending, a_downloaded, a_file, a_outcome,
                    a_saves >>
EditCategories ==
    /\ \E v \in FormCategories \ { a_categories } : a_categories' = v
    /\ UNCHANGED << searchVars, scoreVars, downloadVars, termVars, desktopVars, suggestVars,
                    a_name, a_exec, a_icon, a_pending, a_downloaded, a_file, a_outcome,
                    a_saves >>

\* action_search_icons.on_icon_selected(icon) with an icon (app.py:380-394);
\* the modal opens only when Name or Exec is not blank (line 345)
OnIconSelected ==
    /\ Strip(a_name) # <<>> \/ Strip(a_exec) # <<>>
    /\ \E icon \in ModalIcons :
          /\ a_pending' = << icon >>
          /\ a_icon' = <<"[", "S", "e", "l", "e", "c", "t", "e", "d", ":", " ">> \o icon.display_name \o <<"]">>
    /\ UNCHANGED << searchVars, scoreVars, downloadVars, termVars, desktopVars, suggestVars,
                    a_name, a_exec, a_categories, a_downloaded, a_file, a_outcome, a_saves >>

\* action_save (app.py:230-319); net: download_image returned a path,
\* disk: save_desktop_file succeeded. Comment is left empty and Terminal off;
\* no Exec value here names an AppImage (lines 279-290).
ActionSave ==
    /\ a_saves < MaxSaves
    /\ a_saves' = a_saves + 1
    /\ \E net \in BOOLEAN, disk \in BOOLEAN :
          LET icon_field == IF a_icon = <<>> THEN None ELSE a_icon
              downloading ==
                  a_pending # <<>> /\ icon_field # None /\ StartsWith(icon_field, <<"[", "S", "e", "l", "e", "c", "t", "e", "d", ":">>)
              downloaded_path == download_dir \o <<"/">> \o a_pending[1].file
              icon == IF downloading THEN (IF net THEN downloaded_path ELSE None)
                      ELSE icon_field
              pending == IF downloading THEN <<>> ELSE a_pending
              categories == StrippedNonEmpty(Split(a_categories, ";"))
              content ==
                  generate_desktop_content(
                      DesktopFileData(a_name, a_exec, icon, None, categories, FALSE))
          IN  /\ a_downloaded' = IF downloading /\ net THEN a_downloaded \cup { downloaded_path }
                                 ELSE a_downloaded
              /\ IF ~validate_all_fields(a_name, a_exec, icon, categories)
                 THEN /\ a_outcome' = "rejected"
                      /\ a_pending' = pending
                      /\ UNCHANGED << a_name, a_exec, a_icon, a_categories, a_file >>
                 ELSE IF ~disk
                 THEN /\ a_outcome' = "failed"
                      /\ a_pending' = pending
                      /\ UNCHANGED << a_name, a_exec, a_icon, a_categories, a_file >>
                 ELSE /\ a_outcome' = "saved"
                      /\ a_file' = << content >>
                      \* action_clear
                      /\ a_name' = <<>> /\ a_exec' = <<>> /\ a_icon' = <<>>
                      /\ a_categories' = <<>>
                      /\ a_pending' = <<>>
    /\ UNCHANGED << searchVars, scoreVars, downloadVars, termVars, desktopVars, suggestVars >>

\* action_clear (app.py:321-332)
ActionClear ==
    /\ a_name' = <<>> /\ a_exec' = <<>> /\ a_icon' = <<>> /\ a_categories' = <<>>
    /\ a_pending' = <<>>
    /\ UNCHANGED << searchVars, scoreVars, downloadVars, termVars, desktopVars, suggestVars,
                    a_downloaded, a_file, a_outcome, a_saves >>

(***************************************************************************)
(* Specifications                                                          *)
(***************************************************************************)
vars == << searchVars, restVars >>

Init == SearchInit /\ ScoreInit /\ DownloadInit /\ TermInit /\ DesktopInit /\ SuggestInit /\ FormInit

\* the search pipeline: search_icons called directly or from action_search_icons
Next ==
    \/ CallSearchIcons
    \/ ActionSearchIcons
    \/ SearchIconsResolve
    \/ Phase1Call
    \/ SimpleIconsEntry
    \/ SimpleIconsLoop
    \/ SimpleIconsHead
    \/ Phase1Merge
    \/ Phase2Call
    \/ IconifyEntry
    \/ IconifyLoop
    \/ IconifyGet
    \/ Phase2Merge
    \/ Phase3Call
    \/ DdgEntry
    \/ DdgLoop
    \/ DdgImages
    \/ Phase3Merge
    \/ SortAndReturn
    \/ Return
    \/ AlarmFires

Spec == Init /\ [][Next]_vars

\* the catalog and web-search clients called on their own
ClientsNext ==
    \/ CallClient
    \/ SimpleIconsEntry
    \/ SimpleIconsLoop
    \/ SimpleIconsHead
    \/ IconifyEntry
    \/ IconifyLoop
    \/ IconifyGet
    \/ DdgEntry
    \/ DdgLoop
    \/ DdgImages

SpecClients == Init /\ [][ClientsNext]_vars

\* get_suggestion calls on one ExecutableSuggester while the disk changes
SuggestNext == GetSuggestion \/ FsChanges \/ OptPermissions
SpecSuggest == Init /\ [][SuggestNext]_vars

\* the form: fields edited, an icon selected, Save and Clear
FormNext ==
    \/ EditName \/ EditExec \/ EditIcon \/ EditCategories
    \/ OnIconSelected
    \/ ActionSave
    \/ ActionClear
SpecForm == Init /\ [][FormNext]_vars

\* the scorer applied to candidates drawn from Titles, Widths, Heights
ScoreNext == ScoreCandidate

SpecScore == Init /\ [][ScoreNext]_vars

\* is_square applied to candidates drawn from SquareDims
SquareNext == SquareCandidate

SpecSquare == Init /\ [][SquareNext]_vars

\* extract_search_term applied to names and paths drawn from TermNames, TermExecs
TermNext == ExtractTerm

SpecTerm == Init /\ [][TermNext]_vars

\* the encoder and decoder applied to data drawn from DataNames, DataExecs, ...
DesktopNext == GenerateAndParse

SpecDesktop == Init /\ [][DesktopNext]_vars

\* downloads of one candidate
DownloadNext ==
    \/ NewIcon
    \/ DownloadImage

SpecDownload == Init /\ [][DownloadNext]_vars

(***************************************************************************)
(* Properties                                                              *)
(***************************************************************************)
Urls(rs) == { rs[i].image_url : i \in DOMAIN rs }
\* the candidates in the order the phases collected them
Collected == simpleicons_results \o iconify_results \o ddg_results
\* where a URL was first collected
CollectedAt(url) ==
    CHOOSE i \in DOMAIN Collected :
        /\ Collected[i].image_url = url
        /\ \A j \in 1..(i - 1) : Collected[j].image_url # url
SourceResults(s) ==
    CASE s = "simpleicons" -> simpleicons_results
      [] s = "iconify" -> iconify_results
      [] OTHER -> ddg_results

\* C1: for a non-empty search term and a limit N > 0, whatever the three
\* sources return (duplicates inside a source and across sources included),
\* search_icons returns at most N candidates, no two with the same image_url.
C1_AtMostLimitUnique ==
    (pc = "ret" /\ Truthy(search_term) /\ limit > 0) =>
        /\ Len(returned) <= limit
        /\ \A i, j \in DOMAIN returned : i # j => returned[i].image_url # returned[j].image_url

\* C1 happens: a source repeated a URL, the web search repeated a catalog
\* URL, and more candidates than the limit were collected
C1_Witness ==
    /\ pc = "ret" /\ limit > 1
    /\ Len(iconify_results) > Cardinality(Urls(iconify_results))
    /\ Urls(ddg_results) \cap Urls(iconify_results) # {}
    /\ Len(all_results) > limit
    /\ Len(returned) = limit

\* C2: search_icons never raises because of a source: for every set of
\* unreachable sources, those sources contribute no candidate and the
\* candidates of the other sources are still returned (up to the limit).
C2_SourceFailuresAbsorbed ==
    (caller = "direct" /\ pc \in { "ret", "done" }) =>
        /\ raised = "none"
        /\ \A s \in unreachable : SourceResults(s) = <<>>
        /\ \A i \in DOMAIN returned : returned[i].source \notin unreachable
        /\ (Truthy(search_term) /\ limit > 0) =>
              Len(returned) = Min(limit, Cardinality(Urls(Collected)))

\* C2 happens: two sources are down and the third one's candidates come back
C2_Witness ==
    /\ caller = "direct" /\ pc = "done"
    /\ unreachable = { "simpleicons", "duckduckgo" }
    /\ contacted > 4
    /\ Len(returned) >= 2

\* C3: when query, name and exec_path are all empty, or the resolved search
\* term is empty, search_icons returns the empty list and calls no client.
C3_EmptyTermNoCalls ==
    (pc \in { "ret", "done" } /\ ResolveSearchTerm(query, name, exec_path) = <<>>) =>
        /\ returned = <<>>
        /\ calls = <<>>
        /\ contacted = 0

\* C3 happens: search_icons("", "", "") has returned
C3_Witness ==
    /\ caller = "direct" /\ pc = "ret"
    /\ query = <<>> /\ name = <<>> /\ exec_path = <<>>

\* C4 (as claimed): the search term is the query if the query is non-empty
\* after trimming, else the name if it is non-empty after trimming, else the
\* term derived from exec_path; a whitespace-only query overrides nothing.
C4_TermResolution ==
    (caller = "direct" /\ pc \notin { "idle", "si_entry" }) =>
        IF Truthy(Strip(query)) THEN search_term \in { query, Strip(query) }
        ELSE search_term = extract_search_term(name, exec_path)

\* C5 (as claimed): search_icons(name="Firefox", limit=5), the curated-brand
\* source matching slug firefox, the catalog returning logos:firefox and
\* simple-icons:firefox, the web search nothing: exactly 3 candidates, all
\* scored at least 500, the curated-brand candidate first.
FirefoxScenario ==
    /\ pc = "ret" /\ caller = "direct"
    /\ query = <<>> /\ name = <<"F", "i", "r", "e", "f", "o", "x">> /\ limit = 5
    /\ Urls(simpleicons_results) = { SimpleIconsUrl(<<"f", "i", "r", "e", "f", "o", "x">>) }
    /\ Urls(iconify_results)
         = { IconifyUrl(<<"l", "o", "g", "o", "s", ":", "f", "i", "r", "e", "f", "o", "x">>), IconifyUrl(<<"s", "i", "m", "p", "l", "e", "-", "i", "c", "o", "n", "s", ":", "f", "i", "r", "e", "f", "o", "x">>) }
    /\ ddg_results = <<>>
C5_FirefoxScenario ==
    FirefoxScenario =>
        /\ Len(returned) = 3
        /\ \A i \in DOMAIN returned : calculate_current_score(returned[i]) >= 500
        /\ returned[1].source = "simpleicons"

\* C7: the returned list is ordered by calculate_current_score descending,
\* and candidates with equal scores keep the order in which they were
\* collected (curated-brand, catalog, web search, each in its source's order).
C7_SortedStable ==
    pc = "ret" =>
        \A i, j \in DOMAIN returned :
            i < j =>
                /\ calculate_current_score(returned[i]) >= calculate_current_score(returned[j])
                /\ calculate_current_score(returned[i]) = calculate_current_score(returned[j])
                      => CollectedAt(returned[i].image_url) < CollectedAt(returned[j].image_url)

\* C7 happens: two candidates tie, and a later collected candidate outranks
\* the first collected one
C7_Witness ==
    /\ pc = "ret"
    /\ simpleicons_results # <<>>
    /\ Len(returned) >= 3
    /\ returned[1].image_url # Collected[1].image_url
    /\ \E i \in 1..(Len(returned) - 1) :
          calculate_current_score(returned[i]) = calculate_current_score(returned[i + 1])

\* C8 (as claimed): for a non-empty search term the curated-brand client is
\* called exactly once with (term, limit=3) and the catalog client exactly
\* once with (term, limit=5), whatever limit the caller asked for.
CallsTo(client) == SelectSeq(calls, LAMBDA c : c.client = client)
C8_ClientLimits ==
    (pc = "ret" /\ Truthy(search_term)) =>
        /\ CallsTo("simpleicons")
             = << [client |-> "simpleicons", term |-> search_term, limit |-> 3] >>
        /\ CallsTo("iconify")
             = << [client |-> "iconify", term |-> search_term, limit |-> 5] >>

\* C9 (as claimed): once the 10-second alarm has fired during search_icons the
\* search is abandoned: the TimeoutError reaches action_search_icons, the
\* timeout is reported, no further source is contacted and no result is shown.
C9_TimeoutAbandonsSearch ==
    alarm = "fired" =>
        /\ pc = "done"
        /\ outcome = "timed_out"
        /\ ~lateRequest

\* the negative lexical signals of the scorer
NegativeWords == { <<"o", "l", "d">>, <<"l", "e", "g", "a", "c", "y">>, <<"v", "i", "n", "t", "a", "g", "e">>, <<"h", "i", "s", "t", "o", "r", "y">>, <<"h", "i", "s", "t", "o", "r", "i", "c", "a", "l">>, <<"r", "e", "t", "r", "o">> }
NoNegativeSignal(title) == \A w \in NegativeWords : ~Contains(StrLower(title), w)
Curated(r) == r.source \in { "simpleicons", "iconify" }

\* C6 (as claimed): a curated-brand or catalog candidate whose title has no
\* negative lexical signal scores at least 500, for every width and height >= 0.
C6_CuratedAtLeast500 ==
    (Curated(s_cand) /\ NoNegativeSignal(s_cand.title)) => s_score >= 500

\* C6 (amended): a curated-brand or catalog candidate whose title has no
\* negative lexical signal and whose width is 0 or at least 256 scores at
\* least 500, for every height >= 0.
C6_CuratedAtLeast500UnlessLowRes ==
    (Curated(s_cand) /\ NoNegativeSignal(s_cand.title)
        /\ (s_cand.width = 0 \/ s_cand.width >= 256)) => s_score >= 500

\* C6 happens: a catalog candidate of width 256 with a neutral title scores
\* exactly 500
C6_Witness ==
    /\ s_cand.source = "iconify" /\ s_cand.width = 256
    /\ s_cand.title = <<"F", "i", "r", "e", "f", "o", "x">>
    /\ s_score = 500

\* C10: download_image on success writes the fetched bytes under the target
\* directory, sets local_path to the written path and returns it; on any
\* network or filesystem error it returns None, raises nothing and leaves
\* local_path as it was before the call.
C10_DownloadContract ==
    [][ d_calls' = d_calls + 1 =>
          LET dir == IF d_dir' = None THEN TempDir ELSE d_dir'
          IN  /\ d_raised' = FALSE
              /\ IF d_net'.kind = "ok"
                 THEN /\ d_ret' # None
                      /\ StartsWith(d_ret', dir \o <<"/">>)
                      /\ ~Contains(SubSeq(d_ret', Len(dir) + 2, Len(d_ret')), <<"/">>)
                      /\ d_ret' \in DOMAIN d_fs'
                      /\ d_fs'[d_ret'] = d_net'.chunks
                      /\ d_icon'.local_path = d_ret'
                 ELSE /\ d_ret' = None
                      /\ d_icon'.local_path = d_icon.local_path ]_vars

\* C10 happens: a download failed while writing, after an earlier one had
\* succeeded, and local_path still names the earlier file
C10_Witness ==
    /\ d_calls = 2
    /\ d_net.kind = "write_raises"
    /\ d_ret = None
    /\ d_icon.local_path # None
    /\ d_icon.local_path \in DOMAIN d_fs

\* C11 (as claimed): over any sequence of downloads of one candidate,
\* local_path starts unset and, once set by the first successful download,
\* is never changed or reset.
C11_LocalPathSetOnce ==
    [][ (d_icon.title # <<>> /\ d_icon.local_path # None)
            => d_icon'.local_path = d_icon.local_path ]_vars

\* C11 (amended): local_path starts unset, is changed only by a successful
\* download, which sets it to the path that download wrote and returned, and
\* is never reset to unset; a later successful download changes it again.
C11_LocalPathFollowsLastSuccess ==
    [][ /\ (d_icon.title = <<>> /\ d_icon'.title # <<>>) => d_icon'.local_path = None
        /\ (d_icon.title # <<>> /\ d_icon'.local_path # d_icon.local_path)
              => /\ d_calls' = d_calls + 1
                 /\ d_net'.kind = "ok"
                 /\ d_icon'.local_path = d_ret'
                 /\ d_ret' = DownloadPath(d_icon, d_dir')
        /\ d_icon.local_path # None => d_icon'.local_path # None ]_vars

\* C11 happens: a preview download to the temporary directory succeeded, a
\* save download to the icons directory succeeded after it, and local_path
\* names the second file
C11_Witness ==
    /\ d_calls = 2
    /\ d_dir = IconsDir /\ d_net.kind = "ok"
    /\ DownloadPath(d_icon, TempDir) \in DOMAIN d_fs
    /\ d_icon.local_path = DownloadPath(d_icon, IconsDir)

\* C12: two consecutive successful download_image calls on one candidate with
\* the same target directory and the same remote content return the same
\* path, and the file there holds exactly the remote content (overwritten,
\* not accumulated).
C12_DownloadIdempotent ==
    [][(/\ d_calls' = d_calls + 1 /\ d_calls >= 1
        /\ d_net.kind = "ok" /\ d_net'.kind = "ok"
        /\ d_dir' = d_dir
        /\ d_net'.chunks = d_net.chunks)
           => /\ d_ret' # None /\ d_ret' = d_ret
              /\ d_ret' \in DOMAIN d_fs'
              /\ d_fs'[d_ret'] = d_net'.chunks]_vars

\* C12 happens: the same non-empty content was downloaded twice in a row to
\* the icons directory
C12_Witness ==
    /\ d_calls = 2
    /\ d_repeat
    /\ d_dir = IconsDir /\ Len(d_net.chunks) = MaxChunks
    /\ d_fs[d_ret] = d_net.chunks

\* a client called on its own, and its having returned
ClientCalled(client) == caller = "client" /\ calls # <<>> /\ calls[1].client = client
DdgReturned == ClientCalled("duckduckgo") /\ pc = "phase3_merge"
IconifyReturned == ClientCalled("iconify") /\ pc = "phase2_merge"

\* C13: search_images_duckduckgo never raises; a sub-query that raises adds
\* nothing and the other sub-queries still run and their hits are returned;
\* with the provider absent or not constructible, or every sub-query raising,
\* the result is the empty list.
C13_DdgNeverRaises ==
    ClientCalled("duckduckgo") =>
        /\ raised = "none" /\ pc # "done"
        /\ DdgReturned =>
              /\ (\A i \in DOMAIN answers : answers[i].kind = "exc") => ddg_results = <<>>
              /\ answers # <<>> => Len(answers) = SubQueries
              /\ \A i \in DOMAIN answers :
                    answers[i].kind = "ok" =>
                        \A k \in DOMAIN answers[i].hits :
                            LET h == answers[i].hits[k]
                            IN  (Truthy(h.image) /\ is_square(h)
                                    /\ Len(ddg_results) < calls[1].limit)
                                  => h.image \in Urls(ddg_results)

\* C13 happens: the first and third sub-queries raised, the second and fourth
\* answered, and their hits came back
C13_Witness ==
    /\ DdgReturned
    /\ Len(answers) = SubQueries
    /\ answers[1].kind = "exc" /\ answers[3].kind = "exc"
    /\ answers[2].kind = "ok" /\ answers[2].hits # <<>>
    /\ answers[4].kind = "ok" /\ answers[4].hits # <<>>
    /\ Len(ddg_results) >= 2

\* the URLs of the hits of one answer
HitUrls(hits) == { hits[k].image : k \in DOMAIN hits }

\* C14: the list search_images_duckduckgo returns holds no image_url twice,
\* even when several sub-queries return the same hit, and no empty image_url;
\* a hit without a URL does not keep the hits after it from being returned.
C14_DdgUniqueNonEmptyUrls ==
    DdgReturned =>
        /\ \A i, j \in DOMAIN ddg_results :
              i # j => ddg_results[i].image_url # ddg_results[j].image_url
        /\ \A i \in DOMAIN ddg_results : ddg_results[i].image_url # <<>>
        /\ \A i \in DOMAIN answers :
              answers[i].kind = "ok" =>
                  \A k, l \in DOMAIN answers[i].hits :
                      (/\ k < l
                       /\ answers[i].hits[k].image = <<>>
                       /\ answers[i].hits[l].image # <<>>
                       /\ is_square(answers[i].hits[l])
                       /\ Len(ddg_results) < calls[1].limit)
                          => answers[i].hits[l].image \in Urls(ddg_results)

\* C14 happens: two sub-queries returned the same hit, the last one a hit
\* without a URL followed by a hit only it returned, which is in the result
C14_Witness ==
    /\ DdgReturned
    /\ Len(answers) = SubQueries
    /\ answers[1].kind = "ok" /\ answers[2].kind = "ok" /\ answers[3].kind = "exc"
    /\ \E k \in DOMAIN answers[1].hits, l \in DOMAIN answers[2].hits :
          answers[1].hits[k].image = answers[2].hits[l].image
    /\ answers[4].kind = "ok" /\ Len(answers[4].hits) >= 2
    /\ answers[4].hits[1].image = <<>>
    /\ answers[4].hits[2].image \in Urls(ddg_results)
    /\ answers[4].hits[2].image \notin HitUrls(answers[1].hits) \cup HitUrls(answers[2].hits)

\* the candidate a web hit becomes, and the square hits with a URL that the
\* answered sub-queries delivered
HitCandidate(h) == IconResult(h.title, h.image, h.thumbnail, "duckduckgo", h.width, h.height)
SquarePool ==
    LET delivered ==
            UNION { { HitCandidate(answers[i].hits[k]) : k \in DOMAIN answers[i].hits } :
                      i \in { n \in DOMAIN answers : answers[n].kind \in { "ok", "malformed" } } }
    IN  { r \in delivered : r.image_url # <<>> /\ is_square(r) }

\* C15: search_images_duckduckgo(query, limit) returns at most limit
\* candidates, all square, by score descending; non-square hits are dropped
\* before the cut, so the result is the limit best-scored square hits of all
\* deduplicated hits.
C15_DdgBestSquares ==
    DdgReturned =>
        /\ Len(ddg_results) <= calls[1].limit
        /\ \A i \in DOMAIN ddg_results : is_square(ddg_results[i])
        /\ \A i, j \in DOMAIN ddg_results :
              i < j => calculate_current_score(ddg_results[i])
                         >= calculate_current_score(ddg_results[j])
        /\ Len(ddg_results) = Min(calls[1].limit, Cardinality(SquarePool))
        /\ \A i \in DOMAIN ddg_results : ddg_results[i] \in SquarePool
        /\ \A r \in SquarePool :
              r.image_url \notin Urls(ddg_results) =>
                  \A i \in DOMAIN ddg_results :
                      calculate_current_score(ddg_results[i]) >= calculate_current_score(r)

\* C15 happens: with limit 2, a non-square hit scored no less than a square one, three
\* square hits were delivered, and the two best of them came back
C15_Witness ==
    /\ DdgReturned
    /\ calls[1].limit = 2
    /\ Len(ddg_results) = 2
    /\ Cardinality(SquarePool) >= 3
    /\ \E i \in DOMAIN answers :
          /\ answers[i].kind = "ok"
          /\ \E k \in DOMAIN answers[i].hits :
                /\ ~is_square(answers[i].hits[k])
                /\ calculate_current_score(HitCandidate(answers[i].hits[k]))
                     >= calculate_current_score(ddg_results[2])

\* the icon names the first n answers of the catalog carried
RECURSIVE IconsThrough(_)
IconsThrough(n) ==
    IF n = 0 THEN 0
    ELSE IconsThrough(n - 1) + (IF answers[n].kind \in { "ok", "malformed" } THEN Len(answers[n].icons) ELSE 0)

\* C20: search_iconify(app_name, limit), limit >= 1, asks the namespaces in
\* the order logos, simple-icons, mdi, fa; a namespace whose request fails is
\* skipped and the next ones are still asked; never more than limit
\* candidates are returned, and no namespace is asked once limit candidates
\* are collected.
C20_IconifyNamespaces ==
    (IconifyReturned /\ answers # <<>>) =>
        /\ Len(answers) <= Len(IconSets)
        /\ \A i \in DOMAIN answers : answers[i].req = IconSets[i]
        /\ Len(iconify_results) <= calls[1].limit
        /\ Len(iconify_results) < calls[1].limit => Len(answers) = Len(IconSets)
        /\ \A i \in 1..(Len(answers) - 1) : IconsThrough(i) < calls[1].limit

\* C20 happens: the logos request failed, simple-icons then filled the limit
\* of 2, and mdi and fa were not asked
C20_Witness ==
    /\ IconifyReturned
    /\ calls[1].limit = 2
    /\ Len(answers) = 2
    /\ answers[1].kind = "exc" /\ answers[1].req = IconSets[1]
    /\ answers[2].kind = "ok" /\ answers[2].req = IconSets[2]
    /\ Len(iconify_results) = 2

\* C16: for all widths and heights >= 0, is_square is true exactly when the
\* width is 0, or the height is 0, or 0.9 <= width/height <= 1.1, both bounds
\* included.
C16_IsSquare ==
    s_cand # NoCandidate =>
        (s_square <=> \/ s_cand.width = 0
                      \/ s_cand.height = 0
                      \/ /\ s_cand.height > 0
                         /\ 9 * s_cand.height <= 10 * s_cand.width
                         /\ 10 * s_cand.width <= 11 * s_cand.height)

\* C16 happens: 900x1000, on the lower bound, was found square
C16_Witness ==
    /\ s_cand.width = 900 /\ s_cand.height = 1000
    /\ s_square

\* the file name of a path with its one trailing known extension removed
OneExtensionRemoved(file) ==
    IF \E i \in DOMAIN KnownExtensions : EndsWith(file, KnownExtensions[i])
    THEN LET i == CHOOSE k \in DOMAIN KnownExtensions : EndsWith(file, KnownExtensions[k])
         IN  SubSeq(file, 1, Len(file) - Len(KnownExtensions[i]))
    ELSE file

\* C17 (as claimed): extract_search_term returns the trimmed name when the
\* name is non-empty after trimming; otherwise the file name of exec_path
\* with a trailing .sh, .py, .bin, .exe or .AppImage removed and nothing else
\* removed; and "" when both are empty or whitespace-only.
C17_ExtractSearchTerm ==
    e_term # None =>
        IF Strip(e_name) # <<>> THEN e_term = Strip(e_name)
        ELSE IF Strip(e_exec) # <<>> THEN e_term = OneExtensionRemoved(PathName(e_exec))
        ELSE e_term = <<>>

\* a string without a line break, and one without blanks at its ends
OneLine(s) == s = None \/ "\n" \notin { s[i] : i \in DOMAIN s }
Trimmed(s) == s = None \/ Strip(s) = s

\* C18 (as claimed): for every DesktopFileData with a non-empty name and
\* exec_path, parse_desktop_content(generate_desktop_content(d)) is not None
\* and has the name, exec_path and icon of d.
C18_RoundTrip ==
    (f_data # <<>> /\ f_data[1].name # <<>> /\ f_data[1].exec_path # <<>>) =>
        /\ f_parsed # <<>>
        /\ f_parsed[1].name = f_data[1].name
        /\ f_parsed[1].exec_path = f_data[1].exec_path
        /\ f_parsed[1].icon = f_data[1].icon

\* C18 (amended): the same, for data whose name, exec_path and icon have no
\* blanks at their ends, whose icon is None or non-empty, and whose text
\* fields hold no line break.
C18_RoundTripOfCleanData ==
    (/\ f_data # <<>> /\ f_data[1].name # <<>> /\ f_data[1].exec_path # <<>>
     /\ Trimmed(f_data[1].name) /\ Trimmed(f_data[1].exec_path) /\ Trimmed(f_data[1].icon)
     /\ f_data[1].icon # <<>>
     /\ OneLine(f_data[1].name) /\ OneLine(f_data[1].exec_path) /\ OneLine(f_data[1].icon)
     /\ OneLine(f_data[1].comment) /\ OneLine(f_data[1].type_)
     /\ \A i \in DOMAIN f_data[1].categories : OneLine(f_data[1].categories[i])
     /\ \A i \in DOMAIN f_data[1].keywords : OneLine(f_data[1].keywords[i])
     /\ \A i \in DOMAIN f_data[1].mime_types : OneLine(f_data[1].mime_types[i]))
        => /\ f_parsed # <<>>
           /\ f_parsed[1].name = f_data[1].name
           /\ f_parsed[1].exec_path = f_data[1].exec_path
           /\ f_parsed[1].icon = f_data[1].icon

\* C18 happens: a name holding "=" and an icon starting with "#" came back
\* unchanged
C18_Witness ==
    /\ f_data # <<>> /\ f_parsed # <<>>
    /\ f_data[1].name = <<"A", "=", "B">> /\ f_data[1].icon = <<"#", "i">> /\ f_data[1].comment = <<"c">>
    /\ f_parsed[1].name = <<"A", "=", "B">> /\ f_parsed[1].icon = <<"#", "i">>
    /\ f_parsed[1].exec_path = f_data[1].exec_path

\* what the curated-brand and the catalog phase collected, duplicates dropped
PhasesAB ==
    MergeNew(MergeNew([results |-> <<>>, seen |-> {}], simpleicons_results),
             iconify_results).results
RemainingAfterAB == limit - Len(PhasesAB)
DdgCalls == { i \in DOMAIN calls : calls[i].client = "duckduckgo" }
\* search_icons has gone past the decision of lines 529-530
PastPhase3 ==
    \/ pc \in { "ddg_entry", "ddg_loop", "ddg_images", "phase3_merge", "sort" }
    \/ pc = "ret" /\ Truthy(search_term)

\* C19: search_icons calls the web-search client only once the curated-brand
\* and the catalog phase are over; past that point it has called it exactly
\* once, with limit = max(remaining*2, 10), if remaining = limit - (number of
\* candidates collected by the two phases) is positive, and not at all
\* otherwise; no web request runs without that call.
C19_WebSearchOnlyForRemaining ==
    /\ DdgCalls # {} =>
          /\ PastPhase3 \/ pc = "done"
          /\ DdgCalls = { 3 }
          /\ calls[1].client = "simpleicons" /\ calls[2].client = "iconify"
          /\ RemainingAfterAB > 0
          /\ calls[3] = [client |-> "duckduckgo", term |-> search_term,
                         limit |-> Max(RemainingAfterAB * 2, 10)]
    /\ PastPhase3 => (DdgCalls # {} <=> RemainingAfterAB > 0)
    /\ pc \in { "ddg_entry", "ddg_loop", "ddg_images", "phase3_merge" } => DdgCalls # {}
\* the web search was asked for more than ten to top up what two phases found
C19_Witness ==
    /\ pc = "phase3_merge"
    /\ Len(PhasesAB) > 0
    /\ DdgCalls = { 3 }
    /\ calls[3].limit = RemainingAfterAB * 2
    /\ calls[3].limit > 10

\* search_simple_icons called on its own has returned
SimpleIconsReturned == ClientCalled("simpleicons") /\ pc = "phase1_merge"
\* the existence checks that answered 200
Found == SelectSeq(answers, LAMBDA a : a.kind = "200")
\* a variant the loop can check: neither None nor empty
Applicable(slug) == slug # None /\ Truthy(slug)

\* C21: search_simple_icons never raises; it returns one candidate for each
\* variant whose existence check answered 200 and no other, at most limit of
\* them; a check that fails adds nothing, and the variant after it is still
\* checked.
C21_SimpleIconsAbsorbsFailures ==
    ClientCalled("simpleicons") =>
        /\ raised = "none" /\ pc # "done"
        /\ SimpleIconsReturned =>
              LET variations == SimpleIconsVariations(calls[1].term)
              IN  /\ simpleicons_results =
                        [i \in 1..Len(Found) |-> SimpleIconsResult(Found[i].req)]
                  /\ Len(simpleicons_results) <= calls[1].limit
                  /\ \A i \in DOMAIN answers : answers[i].req = variations[i]
                  /\ \A i \in DOMAIN answers :
                        (/\ answers[i].kind = "exc"
                         /\ i < Len(variations)
                         /\ Applicable(variations[i + 1])
                         /\ Len(SelectSeq(SubSeq(answers, 1, i), LAMBDA a : a.kind = "200"))
                               < calls[1].limit)
                            => Len(answers) > i

\* C21 happens: the check of the raw slug failed, the next variant was found
C21_Witness ==
    /\ SimpleIconsReturned
    /\ Len(answers) >= 2
    /\ answers[1].kind = "exc" /\ answers[2].kind = "200"
    /\ Len(simpleicons_results) = 1

\* C29: search_simple_icons checks every applicable slug variant until limit
\* is reached; the variant with "code" removed is checked also when the slug
\* holds no "vs".
C29_EveryVariantChecked ==
    (SimpleIconsReturned /\ answers # <<>> /\ Len(simpleicons_results) < calls[1].limit) =>
        LET variations == SimpleIconsVariations(calls[1].term)
        IN  \A i \in DOMAIN variations :
                Applicable(variations[i]) =>
                    \E j \in DOMAIN answers : answers[j].req = variations[i]

\* the candidates the well-formed answers of the running client carry
WellFormedIcons ==
    UNION { { IconifyResult(answers[i].icons[k]).image_url : k \in DOMAIN answers[i].icons } :
              i \in { n \in DOMAIN answers : answers[n].kind = "ok" } }
WellFormedHits ==
    UNION { HitUrls(answers[i].hits) : i \in { n \in DOMAIN answers : answers[n].kind = "ok" } }

\* C22: a catalog response or a web-search result with well-formed entries
\* followed by a malformed one adds no candidate: the client does not raise,
\* and every candidate it returns comes from a well-formed answer.
C22_MalformedAddsNothing ==
    /\ (ClientCalled("iconify") \/ ClientCalled("duckduckgo")) => raised = "none"
    /\ IconifyReturned => Urls(iconify_results) \subseteq WellFormedIcons
    /\ DdgReturned => Urls(ddg_results) \subseteq WellFormedHits

\* the lexical terms of the score: the words that trigger a term, its points
LexicalTerms ==
    << [words |-> { <<"o", "f", "f", "i", "c", "i", "a", "l">> }, points |-> 100],
      [words |-> { <<"p", "r", "i", "m", "a", "r", "y">> }, points |-> 80],
      [words |-> { <<"2", "0", "2", "4">>, <<"2", "0", "2", "5">>, <<"2", "0", "2", "6">> }, points |-> 100],
      [words |-> { <<"c", "u", "r", "r", "e", "n", "t">> }, points |-> 50],
      [words |-> { <<"b", "r", "a", "n", "d">> }, points |-> 50],
      [words |-> { <<"o", "l", "d">> }, points |-> -100],
      [words |-> { <<"l", "e", "g", "a", "c", "y">> }, points |-> -100],
      [words |-> { <<"v", "i", "n", "t", "a", "g", "e">> }, points |-> -50],
      [words |-> { <<"h", "i", "s", "t", "o", "r", "y">>, <<"h", "i", "s", "t", "o", "r", "i", "c", "a", "l">> }, points |-> -50],
      [words |-> { <<"r", "e", "t", "r", "o">> }, points |-> -50] >>
\* the points of the first n terms that a lower-cased title triggers
RECURSIVE SumPoints(_, _)
SumPoints(title_lower, n) ==
    IF n = 0 THEN 0
    ELSE SumPoints(title_lower, n - 1)
         + (IF \E w \in LexicalTerms[n].words : Contains(title_lower, w)
            THEN LexicalTerms[n].points ELSE 0)
\* the sum of the independent terms for a candidate, the source base aside
TermsSum(r) ==
      SumPoints(StrLower(r.title), Len(LexicalTerms))
    + (CASE r.width >= 1024 /\ r.height >= 1024 -> 30
         [] r.width >= 512 /\ r.height >= 512 /\ ~(r.width >= 1024 /\ r.height >= 1024) -> 20
         [] OTHER -> 0)
    - (IF 0 < r.width /\ r.width < 256 THEN 20 ELSE 0)
ThreeSourceBase(source) ==
    CASE source = "simpleicons" -> 550 [] source = "iconify" -> 500 [] OTHER -> 0
GithubBase(r) ==
    600 + (IF Contains(StrLower(r.title), <<"o", "f", "f", "i", "c", "i", "a", "l", " ", "r", "e", "p", "o">>)
              \/ Contains(StrLower(r.title), <<"p", "r", "i", "m", "a", "r", "y">>) THEN 150 ELSE 0)

\* C23 as stated: for every source, title and width, height >= 0 the score is
\* the source base (simpleicons 550, iconify 500, otherwise 0) plus the sum of
\* the independent lexical, resolution and low-resolution terms.
C23_ScoreIsSumOfTerms ==
    s_cand # NoCandidate => s_score = ThreeSourceBase(s_cand.source) + TermsSum(s_cand)

\* C23 amended: the score is that sum for the sources simpleicons, iconify and
\* duckduckgo; for the source github the base is 600, and 150 more when the
\* title holds "official repo" or "primary".
C23_ScoreIsSumOfTermsBySource ==
    s_cand # NoCandidate =>
        s_score = (IF s_cand.source = "github" THEN GithubBase(s_cand)
                   ELSE ThreeSourceBase(s_cand.source)) + TermsSum(s_cand)

\* C23 happens: a web hit of width 1 titled with "history" and "Historical"
\* lost 50 once and 20 for its width
C23_Witness ==
    /\ s_cand.source = "duckduckgo" /\ s_cand.width = 1
    /\ Contains(StrLower(s_cand.title), <<"h", "i", "s", "t", "o", "r", "y">>)
    /\ Contains(StrLower(s_cand.title), <<"h", "i", "s", "t", "o", "r", "i", "c", "a", "l">>)
    /\ s_score = -70

\* C24: every candidate search_icons returns has source simpleicons, iconify
\* or duckduckgo, never github or local, so the GitHub scoring tier adds
\* nothing to a returned score, also with include_github=True; search_icons
\* calls the three source clients and nothing else.
C24_OnlyThreeSources ==
    (caller \in { "direct", "app" }) =>
        /\ \A i \in DOMAIN returned :
              /\ returned[i].source \in Sources
              /\ SourceScore(returned[i].source, StrLower(returned[i].title)) <= 550
        /\ \A i \in DOMAIN all_results : all_results[i].source \in Sources
        /\ \A i \in DOMAIN calls : calls[i].client \in Sources

\* C24 happens: a search with include_github=True returned candidates of all
\* three sources
C24_Witness ==
    /\ pc = "ret" /\ include_github
    /\ { returned[i].source : i \in DOMAIN returned } = Sources

\* C25: search_icons called with limit <= 0 never returns a non-empty list,
\* whatever the sources return.
C25_NonPositiveLimitReturnsNothing ==
    (caller = "direct" /\ limit <= 0) => returned = <<>>

\* the queries that go to the listing cache: non-empty, without "/"
NameBased(value) == Truthy(value) /\ ~Contains(value, <<"/">>)

\* C26: the suggester fills its listing cache lazily and at most once: over
\* any sequence of get_suggestion calls the scan runs at most once, and a
\* repeated name-based (non-empty, no "/") query returns what it returned the
\* first time.
C26_ScanAtMostOnce ==
    /\ g_scans <= 1
    /\ (g_calls > 0 /\ NameBased(g_value) /\ ~g_raised) => g_result = g_first[g_value]

\* path-based and empty queries neither scan nor touch the cache
PathQueriesLeaveCache ==
    [][(g_calls' = g_calls + 1 /\ ~NameBased(g_value')) =>
          (g_executables' = g_executables /\ g_scans' = g_scans /\ ~g_raised')]_vars

\* the lines of a desktop file
FileLines(content) == Split(content, "\n")

\* C27 (as claimed): a desktop file written by action_save never has the
\* placeholder text "[Selected: ...]" as its Icon value.
C27_NoPlaceholderWritten ==
    a_file # <<>> =>
        \A i \in DOMAIN FileLines(a_file[1]) :
            ~StartsWith(FileLines(a_file[1])[i], <<"I", "c", "o", "n", "=", "[", "S", "e", "l", "e", "c", "t", "e", "d", ":">>)

\* C28 (as claimed): a Save that validation rejects downloads nothing into
\* the icon directory and leaves _pending_icon as it was.
C28_RejectedSaveKeepsSelection ==
    [][(a_saves' = a_saves + 1 /\ a_outcome' = "rejected")
          => (a_pending' = a_pending /\ a_downloaded' = a_downloaded)]_vars

\* C30 (as claimed): when the term comes from exec_path, extract_search_term
\* removes at most one extension from the file name: the term is the file
\* name itself when that ends with no known extension, and otherwise the
\* file name without its final known extension only, whatever the order of
\* the extension list ("tool.py.sh" gives "tool.py").
C30_AtMostOneExtensionRemoved ==
    (e_term # None /\ Strip(e_name) = <<>> /\ Strip(e_exec) # <<>>) =>
        LET exec_file == PathName(e_exec)
            final == { i \in DOMAIN KnownExtensions : EndsWith(exec_file, KnownExtensions[i]) }
        IN  IF final = {} THEN e_term = exec_file
            ELSE \E i \in final : e_term \o KnownExtensions[i] = exec_file

====
